---- MODULE Spec2Model ----
(***************************************************************************)
(* Model of the tool-calling orchestration loop of the health assistant:   *)
(* process_query and the dispatcher _execute_function of                   *)
(* api/agents/gemini_orchestrator.py, with the part of external_research   *)
(* that builds the citation lists.                                         *)
(*                                                                         *)
(* Python values are modelled as follows: a dict is a function from its    *)
(* keys (strings), the empty dict is the function with the empty domain,   *)
(* a list is a sequence.  The elements of the citation lists carry their   *)
(* Python type in a field "type", because a list of str and a list of      *)
(* dict are different things to the caller.                                *)
(***************************************************************************)
EXTENDS Integers, Sequences, FiniteSets, TLC

VARIABLES
    pc,                          \* position inside process_query
    user_id,                     \* argument user_id of process_query
    session_history,             \* argument session_history
    history,                     \* local history (Gemini format)
    response,                    \* latest response of chat.send_message
    iteration,                   \* local iteration
    tools_used,                  \* local tools_used (list of names)
    tool_results,                \* local tool_results (dict name -> result)
    function_calls_to_execute,   \* calls collected from the latest response
    function_response_parts,     \* responses built for the current round
    sends,                       \* number of chat.send_message calls made
    roundDispatches,             \* _execute_function calls since the last send
    lastDispatch,                \* what the latest _execute_function call did
    dispatched,                  \* names given to _execute_function, in call order
    lastReturn,                  \* name -> value its latest call returned
    e,                           \* exception caught by the handler, or NoExc
    result,                      \* value returned by process_query
    journal_entries,             \* table journal_entries of the relational store
    index,                       \* the vector index axion-health-journal
    issued,                      \* entry ids the relational store has handed out
    journal_call,                \* the latest journal operation and how its calls went
    journal_result,              \* what that operation returned
    health_metrics,              \* table health_metrics, in insertion order
    now,                         \* the clock
    started,                     \* number of health data requests received
    hreq,                        \* the health data request each slot serves
    tool_input,                  \* the rows and arguments an analysis tool is given
    tool_result,                 \* what the analysis tool did with them
    runs                         \* the locals of each of two concurrent process_query runs

\* the state of process_query: the run followed alone, and the runs
\* followed side by side
queryVars == <<pc, user_id, session_history, history, response, iteration,
               tools_used, tool_results, function_calls_to_execute,
               function_response_parts, sends, roundDispatches,
               lastDispatch, dispatched, lastReturn, e, result, runs>>

\* the journal: both stores and the latest operation on them
journalVars == <<journal_entries, index, issued, journal_call, journal_result>>

\* the health data: the store, the clock and the requests under way
healthVars == <<health_metrics, now, started, hreq>>

\* one call of an analysis tool
toolVars == <<tool_input, tool_result>>

\* everything a process_query run leaves alone, the locals of other runs
\* included
serviceVars == <<journalVars, healthVars, toolVars, runs>>

vars == <<queryVars, serviceVars>>

-----------------------------------------------------------------------------
(* Bounds of the model *)

\* largest number of tool-call requests in one model response
MaxBatch == 2

-----------------------------------------------------------------------------
(* Python values *)

EmptyDict == [k \in {} |-> ""]

NoExc == [type |-> "none", msg |-> ""]

Exc(t, m) == [type |-> t, msg |-> m]

\* f"{type(e).__name__}: {str(e)}"
ErrorMsg(ex) == ex.type \o ": " \o ex.msg

PyStr(s) == [type |-> "str", value |-> s]

\* a session message that is a mapping, and a list element that is not one
Msg(r, c) == [type |-> "dict", role |-> r, content |-> c]

BadMsg == [type |-> "str", role |-> "", content |-> ""]

\* the calls of process_query the model starts from.  None and [] are both
\* falsy: the empty sequence stands for the two of them
Requests ==
    { [user_id |-> "u1", session_history |-> <<>>],
      [user_id |-> "u2", session_history |->
          << Msg("user", "hi"), Msg("assistant", ""), Msg("assistant", "ok") >>],
      [user_id |-> "u1", session_history |-> << Msg("user", "hi"), BadMsg >>] }

-----------------------------------------------------------------------------
(* The tools and their signatures *)

Registered == {"detect_anomalies", "find_correlations", "run_forecasting",
               "search_private_journal", "external_research"}

UserScoped == Registered \ {"external_research"}

\* keyword parameters each tool accepts
Params(f) ==
    CASE f = "detect_anomalies" ->
             {"user_id", "metric_name", "lookback_days", "contamination"}
      [] f = "find_correlations" ->
             {"user_id", "lookback_days", "min_correlation"}
      [] f = "run_forecasting" ->
             {"user_id", "metric_name", "forecast_days", "lookback_days"}
      [] f = "search_private_journal" ->
             {"user_id", "query", "n_results"}
      [] f = "external_research" -> {"query"}
      [] f = "get_biomarkers" ->
             {"external_id", "start_date", "end_date", "categories", "types"}

\* parameters without a default value
Required(f) ==
    CASE f = "detect_anomalies" -> {"user_id", "metric_name"}
      [] f = "find_correlations" -> {"user_id"}
      [] f = "run_forecasting" -> {"user_id", "metric_name"}
      [] f = "search_private_journal" -> {"user_id", "query"}
      [] f = "external_research" -> {"query"}
      [] f = "get_biomarkers" -> {"external_id", "start_date", "end_date"}

-----------------------------------------------------------------------------
(* A Python call  f(<explicit keywords>, **arguments)                      *)

\* a call that merges the two mappings and lets the later one win, as
\* f(**{**explicit, **arguments}) does
KeywordCallMerged(f, explicit, arguments) ==
    LET given   == DOMAIN explicit \cup DOMAIN arguments
        unknown == given \ Params(f)
        missing == Required(f) \ given
    IN  IF unknown # {}
        THEN [exc |-> Exc("TypeError", f \o "() got an unexpected keyword argument '"
                                         \o (CHOOSE k \in unknown : TRUE) \o "'"),
              bound |-> EmptyDict]
        ELSE IF missing # {}
        THEN [exc |-> Exc("TypeError", f \o "() missing 1 required positional argument: '"
                                         \o (CHOOSE k \in missing : TRUE) \o "'"),
              bound |-> EmptyDict]
        ELSE [exc |-> NoExc, bound |-> arguments @@ explicit]

\* the call binds the keywords or raises TypeError; bound is what f receives
KeywordCall(f, explicit, arguments) ==
    LET dup     == DOMAIN explicit \cap DOMAIN arguments
        given   == DOMAIN explicit \cup DOMAIN arguments
        unknown == given \ Params(f)
        missing == Required(f) \ given
    IN  IF dup # {}
        THEN [exc |-> Exc("TypeError", f \o "() got multiple values for keyword argument '"
                                         \o (CHOOSE k \in dup : TRUE) \o "'"),
              bound |-> EmptyDict]
        ELSE IF unknown # {}
        THEN [exc |-> Exc("TypeError", f \o "() got an unexpected keyword argument '"
                                         \o (CHOOSE k \in unknown : TRUE) \o "'"),
              bound |-> EmptyDict]
        ELSE IF missing # {}
        THEN [exc |-> Exc("TypeError", f \o "() missing 1 required positional argument: '"
                                         \o (CHOOSE k \in missing : TRUE) \o "'"),
              bound |-> EmptyDict]
        ELSE [exc |-> NoExc, bound |-> explicit @@ arguments]

-----------------------------------------------------------------------------
(* external_research and the results of the other tools                    *)

\* urlparse(url).netloc
Netloc(url) ==
    CASE url = "https://who.int/sleep" -> "who.int"
      [] url = "nih.gov" -> ""

\* _extract_domain: parsed.netloc or url
ExtractDomain(url) == IF Netloc(url) # "" THEN Netloc(url) ELSE url

\* the citations attribute of the Perplexity response, when it has one
CitationLists == { <<>>, << "https://who.int/sleep", "nih.gov" >> }

SourceDict(url) == [type |-> "dict", url |-> url, title |-> ExtractDomain(url)]

\* external_research: the result of a completed request, or of a failed one
ExternalResearch(query) ==
    { [query |-> query,
       citations |-> [i \in 1..Len(c) |-> PyStr(c[i])],
       sources |-> [i \in 1..Len(c) |-> SourceDict(c[i])]] : c \in CitationLists }
    \cup
    { [query |-> query, citations |-> <<>>, sources |-> <<>>,
       error |-> "Connection error."] }

\* The other tools catch every exception raised in their body and return
\* an in-band error; what they compute depends on the stores.

\* detect_anomalies: a result, or the insufficient-data error
DetectAnomalies(bound) ==
    { [anomalies_found |-> TRUE, anomaly_count |-> 1],
      [anomalies_found |-> FALSE,
       error |-> "Insufficient data for " \o bound.metric_name
                 \o ". Need at least 5 data points."] }

\* find_correlations: a result, or the insufficient-data error
FindCorrelations(bound) ==
    { [correlations |-> <<>>, total_days |-> 12],
      [correlations |-> <<>>,
       error |-> "Insufficient data for correlation analysis. Need at least 10 data points."] }

\* run_forecasting: a result, or the error of its handler
RunForecasting(bound) ==
    { [forecast_values |-> <<70>>, metric_name |-> bound.metric_name],
      [forecast_values |-> <<>>, error |-> "connection refused"] }

\* search_private_journal: a result, or the error of its handler
SearchPrivateJournal(bound) ==
    { [query |-> bound.query, results |-> <<>>, count |-> 0],
      [query |-> bound.query, results |-> <<>>, count |-> 0,
       error |-> "index unavailable"] }

\* the call of tool f with the keywords bound
ToolReturns(f, bound) ==
    CASE f = "detect_anomalies" -> DetectAnomalies(bound)
      [] f = "find_correlations" -> FindCorrelations(bound)
      [] f = "run_forecasting" -> RunForecasting(bound)
      [] f = "search_private_journal" -> SearchPrivateJournal(bound)
      [] f = "external_research" -> ExternalResearch(bound.query)

-----------------------------------------------------------------------------
(* _execute_function                                                       *)

\* every exception of the model is a subclass of Exception
ExceptionTypes == {"TypeError", "ValueError", "IndexError", "AttributeError",
                   "ServiceUnavailable"}

\* a handler written for one exception type:  except ValueError as e
DispatchExceptValueError(ex) == ex.type = "ValueError"

\* except Exception as e  (the handler of _execute_function)
DispatchExcept(ex) == ex.type \in ExceptionTypes

\* the keywords the dispatcher writes itself at the call of tool f
Injected(f, uid) == IF f \in UserScoped THEN [user_id |-> uid] ELSE EmptyDict

\* one record per way the call can go: the tool that ran and the user_id it
\* received ("none" when no tool ran), the exception raised inside the try,
\* whether it left the dispatcher, and the value returned
Dispatch(n, a, t, u, x, r, v) ==
    [name |-> n, args |-> a, tool |-> t, tool_user_id |-> u,
     exc |-> x, raised |-> r, value |-> v]

\* a dispatch table indexed by the name:  handlers[function_name](...)
UnknownFunctionKeyError(function_name, arguments) ==
    Dispatch(function_name, arguments, "none", "none",
             Exc("KeyError", function_name), FALSE,
             [error |-> "KeyError: " \o function_name])

\* lines 173-174: the else branch of the chain of comparisons
UnknownFunction(function_name, arguments) ==
    Dispatch(function_name, arguments, "none", "none", NoExc, FALSE,
             [error |-> "Unknown function: " \o function_name])

ExecuteFunction(function_name, uid, arguments) ==
    IF function_name \in Registered
    THEN LET call == KeywordCall(function_name, Injected(function_name, uid), arguments)
         IN  IF call.exc # NoExc
             THEN IF DispatchExcept(call.exc)
                  THEN { Dispatch(function_name, arguments, "none", "none", call.exc,
                                  FALSE, [error |-> ErrorMsg(call.exc)]) }
                  ELSE { Dispatch(function_name, arguments, "none", "none", call.exc,
                                  TRUE, EmptyDict) }
             ELSE { Dispatch(function_name, arguments, function_name,
                             IF "user_id" \in DOMAIN call.bound
                             THEN call.bound.user_id ELSE "none",
                             NoExc, FALSE, r) :
                    r \in ToolReturns(function_name, call.bound) }
    ELSE { UnknownFunction(function_name, arguments) }

NoDispatch == Dispatch("", EmptyDict, "none", "none", NoExc, FALSE, EmptyDict)

-----------------------------------------------------------------------------
(* The model (LLM) and its responses                                       *)

TextPart(t) == [kind |-> "text", text |-> t, name |-> "", args |-> EmptyDict]

CallPart(n, a) == [kind |-> "function_call", text |-> "", name |-> n, args |-> a]

\* the tool-call requests the model may make: well-formed ones, ones with a
\* user_id of the model's choosing, with an unexpected keyword, with a
\* required argument missing, and one for a name that is not registered
CallMenu ==
    { CallPart("detect_anomalies", [metric_name |-> "steps"]),
      CallPart("find_correlations", [min_correlation |-> "0.5", user_id |-> "u2"]),
      CallPart("run_forecasting", [forecast_days |-> "7"]),
      CallPart("search_private_journal", [query |-> "tired", top_k |-> "3"]),
      CallPart("external_research", [query |-> "melatonin"]),
      CallPart("lookup_weather", EmptyDict) }

CallBatches == UNION { [1..n -> CallMenu] : n \in 1..MaxBatch }

Texts == {"", "Your sleep looks fine."}

Response(c, p) == [candidates |-> c, parts |-> p]

\* responses without a tool-call request: blocked (no candidate), no part,
\* or text only
FinalResponses ==
    { Response(0, <<>>), Response(1, <<>>) }
    \cup { Response(1, << TextPart(t) >>) : t \in Texts }

\* responses with tool-call requests, alone or after a text part
CallResponses ==
    { Response(1, b) : b \in CallBatches }
    \cup { Response(1, << TextPart("Let me check.") >> \o b) : b \in [1..1 -> CallMenu] }

Responses == FinalResponses \cup CallResponses

NoResponse == Response(0, <<>>)

\* the test without its second half: every Part has the attribute
IsFunctionCallHasattr(part) == part.kind \in {"text", "function_call"}

\* hasattr(part, 'function_call') and part.function_call
IsFunctionCall(part) ==
    part.kind = "function_call" /\ (part.name # "" \/ DOMAIN part.args # {})

\* a collection that keeps the first function call only
FunctionCallsFirstOnly(parts) ==
    LET all == SelectSeq(parts, IsFunctionCall)
    IN  IF all = <<>> THEN <<>> ELSE << all[1] >>

FunctionCalls(parts) == SelectSeq(parts, IsFunctionCall)

\* chat.send_message: the model answers or the call raises.  The scripted
\* model either repeats the tool-call response it gave last or stops asking.
SendMessage(previous) ==
    { [exc |-> NoExc, response |-> r] :
        r \in IF FunctionCalls(previous.parts) # <<>>
              THEN {previous} \cup FinalResponses
              ELSE Responses }
    \cup { [exc |-> Exc("ServiceUnavailable", "503 upstream"), response |-> NoResponse] }

RECURSIVE JoinText(_)
\* "\n".join of the text parts
JoinText(parts) ==
    LET texts == SelectSeq(parts, LAMBDA p : p.kind = "text")
    IN  IF texts = <<>> THEN ""
        ELSE IF Len(texts) = 1 THEN texts[1].text
        ELSE texts[1].text \o "\n" \o JoinText(Tail(texts))

\* response.text of the SDK: the text of a response made of text parts; for
\* a response without candidate it raises, and for a response without part or
\* with a part that is not text it raises in the SDK versions that refuse
\* such responses and joins the text parts in the others
Text(r) ==
    IF r.candidates = 0
    THEN { [exc |-> Exc("ValueError", "no candidate"), text |-> ""] }
    ELSE IF r.parts # <<>> /\ \A i \in 1..Len(r.parts) : r.parts[i].kind = "text"
    THEN { [exc |-> NoExc, text |-> JoinText(r.parts)] }
    ELSE { [exc |-> NoExc, text |-> JoinText(r.parts)],
           [exc |-> Exc("ValueError", "response is not simple text"), text |-> ""] }

-----------------------------------------------------------------------------
(* process_query                                                           *)

\* a loop that tests the cap one pass too late
max_iterations_late == 10 + 1

max_iterations == 10

\* the conversion of session_history, up to the first element it fails on
RECURSIVE ConvertHistory(_)
ConvertHistory(msgs) ==
    IF msgs = <<>> THEN [exc |-> NoExc, history |-> <<>>]
    ELSE LET msg == Head(msgs)
             rest == ConvertHistory(Tail(msgs))
         IN  IF msg.type # "dict"
             THEN [exc |-> Exc("AttributeError", "'str' object has no attribute 'get'"),
                   history |-> <<>>]
             ELSE IF rest.exc # NoExc THEN rest
             ELSE IF msg.content # ""
             THEN [exc |-> NoExc,
                   history |-> << [role |-> IF msg.role = "user" THEN "user" ELSE "model",
                                   parts |-> << [text |-> msg.content] >>] >>
                               \o rest.history]
             ELSE rest

\* tool_results.setdefault(function_name, function_result): first result kept
DictSetDefault(d, k, v) == [x \in DOMAIN d \cup {k} |-> IF x \in DOMAIN d THEN d[x] ELSE v]

\* tool_results[function_name] = function_result
DictSet(d, k, v) == [x \in DOMAIN d \cup {k} |-> IF x = k THEN v ELSE d[x]]

\* a function response that leaves an error result out
FunctionResponsePartWithoutError(n, r) ==
    [name |-> n,
     response |-> [result |-> IF "error" \in DOMAIN r THEN EmptyDict ELSE r]]

\* genai.protos.Part(function_response=FunctionResponse(name, {"result": r}))
FunctionResponsePart(n, r) == [name |-> n, response |-> [result |-> r]]

\* "x in tools_used"
InList(x, list) == \E i \in 1..Len(list) : list[i] = x

\* the sources field of the research result surfaced instead of citations
SourcesFromSourcesField(used, results) ==
    IF InList("external_research", used) /\ "external_research" \in DOMAIN results
    THEN LET research_result == results["external_research"]
         IN  IF "sources" \in DOMAIN research_result
             THEN research_result.sources
             ELSE <<>>
    ELSE <<>>

\* the citations surfaced as sources
Sources(used, results) ==
    IF InList("external_research", used) /\ "external_research" \in DOMAIN results
    THEN LET research_result == results["external_research"]
         IN  IF "citations" \in DOMAIN research_result
             THEN research_result.citations
             ELSE <<>>
    ELSE <<>>

ErrorResponse(ex) ==
    [answer |-> "I apologize, but I encountered an error processing your query: "
                \o ErrorMsg(ex),
     tools_used |-> <<>>,
     tool_results |-> EmptyDict,
     sources |-> <<>>,
     error |-> ErrorMsg(ex)]

\* a handler written for one exception type:  except ValueError as e
QueryExceptValueError(ex) == ex.type = "ValueError"

\* except Exception as e  (the handler of process_query)
QueryExcept(ex) == ex.type \in ExceptionTypes

\* an exception raised inside the try of process_query
Raise(ex) ==
    /\ e' = ex
    /\ IF QueryExcept(ex)
       THEN pc' = "returned" /\ result' = ErrorResponse(ex)
       ELSE pc' = "raised" /\ result' = result

\* no journal entry has been written yet
NoJournalCall ==
    [op |-> "none", user_id |-> "", entry_id |-> "", query |-> <<>>,
     n_results |-> 0, rel |-> "", vec |-> "", semantic |-> -1,
     ops |-> <<>>]

JournalInit ==
    /\ journal_entries = {}
    /\ index = {}
    /\ issued = {}
    /\ journal_call = NoJournalCall
    /\ journal_result = EmptyDict

\* the execution contexts that serve health data requests
Slots == {1, 2}

\* a request slot that serves nothing
IdleRequest ==
    [pc |-> "idle", kind |-> "", user_id |-> "", days |-> 0, end_date |-> 0,
     biomarkers |-> <<>>, count |-> 0, data_source |-> "",
     new_records |-> <<>>, response |-> EmptyDict]

HealthInit ==
    /\ health_metrics = <<>>
    /\ now = 0
    /\ started = 0
    /\ hreq = [s \in Slots |-> IdleRequest]

\* no analysis tool has been given anything
NoToolInput ==
    [data |-> <<>>, metric_name |-> "", forecast_days |-> [type |-> "int", n |-> 0],
     contamination |-> 0]

NoToolResult ==
    [op |-> "none", value |-> EmptyDict, raised |-> FALSE, fetch |-> "",
     fits |-> <<>>]

ToolIdle ==
    /\ tool_input = NoToolInput
    /\ tool_result = NoToolResult

Init ==
    /\ pc = "start"
    /\ \E request \in Requests :
         /\ user_id = request.user_id
         /\ session_history = request.session_history
    /\ history = <<>>
    /\ response = NoResponse
    /\ iteration = 0
    /\ tools_used = <<>>
    /\ tool_results = EmptyDict
    /\ function_calls_to_execute = <<>>
    /\ function_response_parts = <<>>
    /\ sends = 0
    /\ roundDispatches = 0
    /\ lastDispatch = NoDispatch
    /\ dispatched = <<>>
    /\ lastReturn = EmptyDict
    /\ e = NoExc
    /\ result = EmptyDict
    /\ runs = <<>>
    /\ JournalInit
    /\ HealthInit
    /\ ToolIdle

\* lines 330-382: build history, the model and the chat session
StartChat ==
    /\ pc = "start"
    /\ UNCHANGED serviceVars
    /\ LET conv == IF session_history # <<>>
                   THEN ConvertHistory(session_history)
                   ELSE [exc |-> NoExc, history |-> <<>>]
       IN  IF conv.exc # NoExc
           THEN Raise(conv.exc) /\ UNCHANGED history
           ELSE /\ history' = conv.history
                /\ pc' = "send_query"
                /\ UNCHANGED <<e, result>>
    /\ UNCHANGED <<user_id, session_history, response, iteration, tools_used,
                   tool_results, function_calls_to_execute,
                   function_response_parts, sends, roundDispatches,
                   lastDispatch, dispatched, lastReturn>>

\* line 385: response = chat.send_message(query)
SendQuery ==
    /\ pc = "send_query"
    /\ UNCHANGED serviceVars
    /\ sends' = sends + 1
    /\ \E out \in SendMessage(NoResponse) :
         IF out.exc # NoExc
         THEN Raise(out.exc) /\ UNCHANGED response
         ELSE /\ response' = out.response
              /\ pc' = "loop_test"
              /\ UNCHANGED <<e, result>>
    /\ UNCHANGED <<user_id, session_history, history, iteration, tools_used,
                   tool_results, function_calls_to_execute,
                   function_response_parts, roundDispatches,
                   lastDispatch, dispatched, lastReturn>>

\* lines 392-410: the loop condition, the collection of the function calls
\* of the response and the break
LoopHead ==
    /\ pc = "loop_test"
    /\ UNCHANGED serviceVars
    /\ IF iteration < max_iterations
       THEN IF response.candidates = 0
            THEN /\ Raise(Exc("IndexError", "list index out of range"))
                 /\ UNCHANGED <<iteration, function_calls_to_execute,
                                function_response_parts>>
            ELSE IF response.parts = <<>>
            THEN /\ pc' = "extract"
                 /\ UNCHANGED <<iteration, function_calls_to_execute,
                                function_response_parts, e, result>>
            ELSE /\ iteration' = iteration + 1
                 /\ function_calls_to_execute' = FunctionCalls(response.parts)
                 /\ IF FunctionCalls(response.parts) = <<>>
                    THEN pc' = "extract" /\ UNCHANGED function_response_parts
                    ELSE pc' = "exec" /\ function_response_parts' = <<>>
                 /\ UNCHANGED <<e, result>>
       ELSE /\ pc' = "extract"
            /\ UNCHANGED <<iteration, function_calls_to_execute,
                           function_response_parts, e, result>>
    /\ UNCHANGED <<user_id, session_history, history, response, tools_used,
                   tool_results, sends, roundDispatches, lastDispatch,
                   dispatched, lastReturn>>

\* lines 412-431: one pass of the for loop over function_calls_to_execute
ExecTool ==
    /\ pc = "exec"
    /\ UNCHANGED serviceVars
    /\ LET function_call == function_calls_to_execute[Len(function_response_parts) + 1]
           function_name == function_call.name
           function_args == function_call.args
       IN  /\ tools_used' = Append(tools_used, function_name)
           /\ roundDispatches' = roundDispatches + 1
           /\ \E d \in ExecuteFunction(function_name, user_id, function_args) :
                /\ lastDispatch' = d
                /\ dispatched' = Append(dispatched, d.name)
                /\ lastReturn' = IF d.raised THEN lastReturn
                                 ELSE (d.name :> d.value) @@ lastReturn
                /\ IF d.raised
                   THEN /\ Raise(d.exc)
                        /\ UNCHANGED <<tool_results, function_response_parts>>
                   ELSE /\ tool_results' = DictSet(tool_results, function_name, d.value)
                        /\ function_response_parts' =
                              Append(function_response_parts,
                                     FunctionResponsePart(function_name, d.value))
                        /\ pc' = IF Len(function_response_parts) + 1
                                    = Len(function_calls_to_execute)
                                 THEN "send_batch" ELSE "exec"
                        /\ UNCHANGED <<e, result>>
    /\ UNCHANGED <<user_id, session_history, history, response, iteration,
                   function_calls_to_execute, sends>>

\* lines 433-437: send all function responses back in one message
SendResponses ==
    /\ pc = "send_batch"
    /\ UNCHANGED serviceVars
    /\ sends' = sends + 1
    /\ roundDispatches' = 0
    /\ \E out \in SendMessage(response) :
         IF out.exc # NoExc
         THEN Raise(out.exc) /\ UNCHANGED response
         ELSE /\ response' = out.response
              /\ pc' = "loop_test"
              /\ UNCHANGED <<e, result>>
    /\ UNCHANGED <<user_id, session_history, history, iteration, tools_used,
                   tool_results, function_calls_to_execute,
                   function_response_parts, lastDispatch, dispatched,
                   lastReturn>>

\* lines 439-461: the final answer, the sources and the result
ExtractAnswer ==
    /\ pc = "extract"
    /\ UNCHANGED serviceVars
    /\ \E t \in Text(response) :
         IF t.exc # NoExc
         THEN Raise(t.exc)
         ELSE /\ result' = [answer |-> t.text,
                            tools_used |-> tools_used,
                            tool_results |-> tool_results,
                            sources |-> Sources(tools_used, tool_results)]
              /\ pc' = "returned"
              /\ UNCHANGED e
    /\ UNCHANGED <<user_id, session_history, history, response, iteration,
                   tools_used, tool_results, function_calls_to_execute,
                   function_response_parts, sends, roundDispatches,
                   lastDispatch, dispatched, lastReturn>>

Next ==
    \/ StartChat
    \/ SendQuery
    \/ LoopHead
    \/ ExecTool
    \/ SendResponses
    \/ ExtractAnswer

Spec == Init /\ [][Next]_vars

\* process_query runs to completion: no step of it waits for anything but
\* the blocking calls, which return or raise
LiveSpec == Spec /\ WF_vars(Next)

-----------------------------------------------------------------------------
(* Properties of process_query and of the dispatcher                       *)

\* names of the tool-call requests of a response, in request order
RequestedNames(r) ==
    LET reqs == SelectSeq(r.parts, LAMBDA p : p.kind = "function_call")
    IN  [i \in 1..Len(reqs) |-> reqs[i].name]

ResponseKeys == {"answer", "tools_used", "tool_results", "sources"}

\* C1: process_query terminates for every behaviour of the model, also one
\* that requests a tool in every response: it returns a response object
\* and it never sends more than 11 messages (10 tool rounds) to the model.
C1_Terminates ==
    /\ <>(pc = "returned" /\ ResponseKeys \subseteq DOMAIN result)
    /\ [](sends <= 11 /\ iteration <= 10 /\ Len(dispatched) <= 10 * MaxBatch)

\* the model asked for tools in each of its 11 responses
C1_Witness ==
    /\ pc = "returned"
    /\ sends = 11
    /\ iteration = 10
    /\ RequestedNames(response) # <<>>
    /\ e.type # "ServiceUnavailable"

\* C2: a response with k >= 1 tool-call requests has its k tools executed
\* through the dispatcher before anything is sent; the one message sent for
\* the round carries the k function responses in request order, and
\* tools_used has gained the k names in request order.
C2_Batching ==
    [][ (sends >= 1 /\ sends' # sends) =>
          LET names == RequestedNames(response)
              k     == Len(names)
              n     == Len(tools_used)
          IN  /\ k >= 1
              /\ roundDispatches = k
              /\ sends' = sends + 1
              /\ sends' = iteration + 1
              /\ pc = "send_batch"
              /\ [i \in 1..Len(function_response_parts) |->
                     function_response_parts[i].name] = names
              /\ \A i \in 1..Len(function_response_parts) :
                     function_response_parts[i].response.result
                        = tool_results[names[i]]
                     \/ \E j \in (i+1)..k : names[j] = names[i]
              /\ n >= k
              /\ SubSeq(tools_used, n - k + 1, n) = names
              /\ SubSeq(dispatched, n - k + 1, n) = names ]_vars

\* a batch of two requests has been answered in one message
C2_Witness ==
    /\ pc = "loop_test"
    /\ sends = 2
    /\ Len(function_response_parts) = 2
    /\ function_response_parts[1].name # function_response_parts[2].name
    /\ tools_used = << function_response_parts[1].name,
                       function_response_parts[2].name >>

\* C3: a user-scoped tool always receives the user_id given to the
\* dispatcher, whatever argument mapping the model supplies.
C3_UserIdInjected ==
    lastDispatch.tool \in UserScoped => lastDispatch.tool_user_id = user_id

\* the model supplied another user's id to a user-scoped tool and the
\* dispatcher has handled the call
C3_Witness ==
    /\ lastDispatch.name \in UserScoped
    /\ "user_id" \in DOMAIN lastDispatch.args
    /\ lastDispatch.args.user_id # user_id
    /\ lastDispatch.tool = "none"

\* C4: process_query never raises; an exception at any point inside it
\* gives a response whose answer embeds the error, with tools_used [],
\* tool_results {}, sources [] and an error field.
C4_NeverRaises ==
    /\ pc # "raised"
    /\ e # NoExc =>
         /\ pc = "returned"
         /\ result = [answer |-> "I apologize, but I encountered an error processing your query: "
                                 \o e.type \o ": " \o e.msg,
                      tools_used |-> <<>>,
                      tool_results |-> EmptyDict,
                      sources |-> <<>>,
                      error |-> e.type \o ": " \o e.msg]

\* an exception after tools have been executed
C4_Witness ==
    /\ pc = "returned"
    /\ e # NoExc
    /\ tools_used # <<>>
    /\ DOMAIN tool_results # {}

\* the text of the text parts of a response ("" when it has none)
TextOfParts(r) ==
    LET texts == SelectSeq(r.parts, LAMBDA p : p.kind = "text")
    IN  IF texts = <<>> THEN "" ELSE texts[1].text

\* the latest send_message call returned a response
Answered == sends >= 1 /\ e.type # "ServiceUnavailable"

\* C5 as stated: once a response has no tool-call request, process_query
\* returns that response's text as the answer.
C5_AnswerIsResponseText ==
    (pc = "returned" /\ Answered /\ RequestedNames(response) = <<>>) =>
        /\ "error" \notin DOMAIN result
        /\ result.answer = TextOfParts(response)

\* C5: once a response has no tool-call request, no tool is executed and no
\* message is sent any more; process_query returns with that response's text
\* as the answer when the response has a part, with the error response when
\* it has no candidate, and with an empty answer or the error response when
\* it has a candidate without parts.
C5_FinalAnswer ==
    [][ (pc \in {"loop_test", "extract"} /\ RequestedNames(response) = <<>>) =>
          /\ sends' = sends
          /\ tools_used' = tools_used
          /\ dispatched' = dispatched
          /\ roundDispatches' = roundDispatches
          /\ pc' \in {"extract", "returned"}
          /\ pc' = "returned" =>
               IF response.candidates = 0
               THEN "error" \in DOMAIN result'
               ELSE IF response.parts = <<>>
               THEN "error" \in DOMAIN result' \/ result'.answer = ""
               ELSE /\ "error" \notin DOMAIN result'
                    /\ result'.answer = TextOfParts(response)
                    /\ result'.tools_used = tools_used ]_vars

\* a text answer returned after a round of tools
C5_Witness ==
    /\ pc = "returned"
    /\ e = NoExc
    /\ RequestedNames(response) = <<>>
    /\ result.answer = "Your sleep looks fine."
    /\ sends >= 2
    /\ Len(dispatched) = sends - 1

\* C6: when the cap of 10 rounds is exhausted and the latest response still
\* requests tools, process_query returns a non-error response whose answer is
\* the text of that response; its tool calls are not executed and tools_used
\* and tool_results are those of the 10 executed rounds.
C6_CapExhausted ==
    (/\ pc = "returned"
     /\ Answered
     /\ sends = 11
     /\ RequestedNames(response) # <<>>) =>
        /\ "error" \notin DOMAIN result
        /\ result.answer = TextOfParts(response)
        /\ result.tools_used = dispatched
        /\ Len(dispatched) = 10 * Len(RequestedNames(response))
        /\ result.tool_results = lastReturn

\* C7: on a successful return tools_used lists every name given to the
\* dispatcher, in call order with repeats, and tool_results maps each of
\* these names to the value its last call returned.
C7_Provenance ==
    (pc = "returned" /\ e = NoExc) =>
        /\ result.tools_used = dispatched
        /\ DOMAIN result.tool_results = { dispatched[i] : i \in 1..Len(dispatched) }
        /\ \A n \in DOMAIN result.tool_results :
              result.tool_results[n] = lastReturn[n]

\* a tool was called twice and its last call returned an in-band error
C7_Witness ==
    /\ pc = "returned"
    /\ e = NoExc
    /\ Len(dispatched) >= 2
    /\ dispatched[1] = "detect_anomalies"
    /\ dispatched[2] = "detect_anomalies"
    /\ "error" \in DOMAIN lastReturn["detect_anomalies"]

\* C8: on a successful return sources is the citations list of the last
\* external_research result when that tool was called and its result has a
\* citations key, and [] otherwise.
C8_Sources ==
    (pc = "returned" /\ e = NoExc) =>
        result.sources =
            IF /\ "external_research" \in DOMAIN lastReturn
               /\ "citations" \in DOMAIN lastReturn["external_research"]
            THEN lastReturn["external_research"].citations
            ELSE <<>>

\* research was called and its last result carries two citations
C8_Witness ==
    /\ pc = "returned"
    /\ e = NoExc
    /\ "external_research" \in DOMAIN lastReturn
    /\ Len(result.sources) = 2

\* a {url, title} record, as opposed to a bare string
IsSourceRecord(x) == x.type = "dict" /\ {"url", "title"} \subseteq DOMAIN x

\* C9: every element of the sources returned by process_query is a
\* {url, title} record.
C9_SourcesAreRecords ==
    pc = "returned" =>
        \A i \in 1..Len(result.sources) : IsSourceRecord(result.sources[i])

\* C10: _execute_function never lets an exception out; an exception raised
\* at the call of a tool becomes the value {error: "<type>: <message>"}.
C10_DispatcherCatches ==
    /\ ~lastDispatch.raised
    /\ lastDispatch.exc # NoExc =>
         /\ lastDispatch.tool = "none"
         /\ lastDispatch.value =
               [error |-> lastDispatch.exc.type \o ": " \o lastDispatch.exc.msg]
         /\ tool_results[lastDispatch.name] = lastDispatch.value

\* a call rejected for an unexpected keyword has been turned into a value
C10_Witness ==
    /\ lastDispatch.name = "search_private_journal"
    /\ lastDispatch.exc.type = "TypeError"
    /\ lastDispatch.value =
          [error |-> "TypeError: search_private_journal() got an unexpected keyword argument 'top_k'"]
    /\ tool_results["search_private_journal"] = lastDispatch.value

\* C11: a call of the dispatcher with a name outside the five registered
\* tools returns {error: "Unknown function: <name>"}; nothing is raised,
\* inside or out of the dispatcher, and no tool runs.
C11_UnknownFunction ==
    (/\ lastDispatch.name # ""
     /\ lastDispatch.name \notin {"detect_anomalies", "find_correlations",
                                  "run_forecasting", "search_private_journal",
                                  "external_research"})
    => /\ lastDispatch.value =
             [error |-> "Unknown function: " \o lastDispatch.name]
       /\ lastDispatch.exc = NoExc
       /\ ~lastDispatch.raised
       /\ lastDispatch.tool = "none"
       /\ lastDispatch.tool_user_id = "none"

\* the model asked for lookup_weather and the loop went on with the error
C11_Witness ==
    /\ lastDispatch.name = "lookup_weather"
    /\ lastDispatch.value = [error |-> "Unknown function: lookup_weather"]
    /\ tool_results["lookup_weather"] = lastDispatch.value
    /\ pc \in {"exec", "send_batch"}

-----------------------------------------------------------------------------
(* The journal: create_journal_entry and delete_journal_entry_endpoint of  *)
(* api/index.py, add_journal_entry, search_journal_entries and             *)
(* delete_journal_entry of api/services/pinecone_client.py, and            *)
(* search_private_journal of api/tools/journal_search.py.                  *)
(*                                                                         *)
(* A text (entry content, query) is a sequence of characters, so that the  *)
(* pattern matching of the keyword search is computed character by         *)
(* character.  A similarity is a number of hundredths.  The embedding      *)
(* vectors are left out: the scores they lead to are chosen freely.        *)

\* the users with a session
JournalUsers == {"u1", "u2"}

\* the entries written during a run, with the id the relational store gives
\* each of them: two of u1 and one of u2 with the text of an entry of u1
Posts ==
    { [id |-> "e1", user_id |-> "u1", date |-> "2025-03-01",
       content |-> <<"a", "_", "b">>],
      [id |-> "e2", user_id |-> "u1", date |-> "2025-03-02",
       content |-> <<"a", "\\", "b">>],
      [id |-> "e3", user_id |-> "u2", date |-> "2025-03-01",
       content |-> <<"a", "_", "b">>] }

\* the queries of a search
Queries == { <<"A">>, <<"_">>, <<"\\">>, <<"z">> }

\* largest n_results of a search
MaxNResults == 2

\* similarity scores of the vector index
Scores == {0, 82}

\* the calls a journal operation makes to the two stores and to the
\* embedding service, in the order it makes them
OpSelect == "journal_entries.select"
OpInsert == "journal_entries.insert"
OpDelete == "journal_entries.delete"
OpILike == "journal_entries.ilike"
OpEmbed == "embed_content"
OpUpsert == "index.upsert"
OpQuery == "index.query"
OpIndexDelete == "index.delete"

\* an f-string message: its text with the values it interpolates
Message(fmt, query, n) == [fmt |-> fmt, query |-> query, n |-> n]

Min(a, b) == IF a < b THEN a ELSE b

\* the lists of k distinct elements of S
Lists(S, k) ==
    { f \in [1..k -> S] : \A i, j \in 1..k : f[i] = f[j] => i = j }

\* lower case, as ILIKE folds it
Lower(c) ==
    CASE c = "A" -> "a"
      [] c = "B" -> "b"
      [] c = "Z" -> "z"
      [] OTHER -> c

\* text ILIKE pattern of PostgreSQL: % is any run of characters, _ any one
\* character, and a backslash takes the next character of the pattern
\* literally
RECURSIVE ILike(_, _)
ILike(text, pattern) ==
    IF pattern = <<>> THEN text = <<>>
    ELSE IF pattern[1] = "\\" /\ Len(pattern) >= 2
    THEN /\ text # <<>>
         /\ Lower(text[1]) = Lower(pattern[2])
         /\ ILike(Tail(text), Tail(Tail(pattern)))
    ELSE IF pattern[1] = "%"
    THEN \/ ILike(text, Tail(pattern))
         \/ text # <<>> /\ ILike(Tail(text), pattern)
    ELSE IF pattern[1] = "_"
    THEN text # <<>> /\ ILike(Tail(text), Tail(pattern))
    ELSE /\ text # <<>>
         /\ Lower(text[1]) = Lower(pattern[1])
         /\ ILike(Tail(text), Tail(pattern))

\* journal_search.py line 93: the pattern  f"%{query}%"
KeywordPattern(query) == <<"%">> \o query \o <<"%">>

\* pinecone_client.py lines 79 and 211: the id of the vector of an entry
VectorId(uid, entry_id) == uid \o "#" \o entry_id

\* pinecone_client.py lines 84-97: the vector written for an entry
Vector(uid, entry_id, date, content) ==
    [id |-> VectorId(uid, entry_id),
     metadata |-> [user_id |-> uid, entry_id |-> entry_id,
                   date |-> date, content |-> content]]

\* index.upsert: a vector with the same id is replaced
Upsert(idx, v) == { w \in idx : w.id # v.id } \cup {v}

\* index.query with a filter that every vector passes
IndexQueryUnfiltered(idx, uid) == idx

\* pinecone_client.py lines 132-140: the vectors that pass the filter
\* {"user_id": {"$eq": user_id}}
IndexQuery(idx, uid) == { v \in idx : v.metadata.user_id = uid }

\* pinecone_client.py lines 147-159: one element of results
SemanticResult(v, score) ==
    [entry_id |-> v.metadata.entry_id, date |-> v.metadata.date,
     content |-> v.metadata.content, similarity |-> score]

\* pinecone_client.py lines 123-196.  The embedding service or the index
\* may fail (the index rejects top_k < 1); otherwise the index answers
\* with the top_k nearest vectors that pass the filter, best score first.
search_journal_entries(idx, uid, query, n_results) ==
    LET failed(ops, msg) ==
            [value |-> [query |-> query, results |-> <<>>, count |-> 0,
                        error |-> msg],
             ops |-> ops]
        cands == IndexQuery(idx, uid)
        k == Min(n_results, Cardinality(cands))
    IN  { failed(<<OpEmbed>>, "embedding service unavailable"),
          failed(<<OpEmbed, OpQuery>>, "index unavailable") }
        \cup
        IF n_results < 1 THEN {}
        ELSE { [value |->
                  [query |-> query,
                   results |-> [i \in 1..k |-> SemanticResult(m[i], sc[i])],
                   count |-> k],
                ops |-> <<OpEmbed, OpQuery>>] :
               m \in Lists(cands, k),
               sc \in { f \in [1..k -> Scores] :
                          \A i, j \in 1..k : i < j => f[i] >= f[j] } }

\* journal_search.py line 47, with the short-circuit left out
NoEntriesNever(supabase_entries) == FALSE

\* journal_search.py line 47:  if len(supabase_entries) == 0
NoEntries(supabase_entries) == Cardinality(supabase_entries) = 0

\* journal_search.py lines 100-109: one element of the fallback results
KeywordResult(entry) ==
    [entry_id |-> entry.id, date |-> entry.date, content |-> entry.content,
     similarity |-> 0, search_method |-> "keyword_fallback"]

\* journal_search.py lines 89-125: the keyword fallback.  The rows come in
\* the order the store likes, at most n_results of them.
KeywordFallback(entries, uid, query, n_results, supabase_entries, formatted) ==
    LET rows == { r \in entries : /\ r.user_id = uid
                                  /\ ILike(r.content, KeywordPattern(query)) }
        k == Min(n_results, Cardinality(rows))
        n == Cardinality(supabase_entries)
    IN  \* lines 122-125: the query raises
        { [message |-> Message("No matching journal entries found for '{query}'. You have {n} journal entries, but search failed.",
                               query, n),
           supabase_entries |-> n] @@ formatted }
        \cup
        IF k = 0
        THEN { [message |-> Message("No matching journal entries found for '{query}'. You have {n} journal entries, but none matched this search. Try different search terms or check if entries are synced to vector database.",
                                    query, n),
                supabase_entries |-> n,
                sync_warning |-> TRUE] @@ formatted }
        ELSE { [search_method |-> "keyword_fallback",
                message |-> Message("Found {n} entries using keyword search (semantic search returned no results)",
                                    <<>>, k)]
               @@ [formatted EXCEPT
                     !.results = [i \in 1..k |-> KeywordResult(fallback_entries[i])],
                     !.count = k] :
               fallback_entries \in Lists(rows, k) }

\* journal_search.py lines 60-63, with the entries of the user kept
CheckFailedKeepsEntries(mine) == mine

\* journal_search.py lines 60-63: the check raised, the except clause
\* leaves supabase_entries = [] whatever entries the user has
CheckFailed(mine) == {}

\* how a call of search_private_journal went: the value returned, the calls
\* made, how the entry check ended and how many matches the index gave
\* (-1 when it was not asked)
SearchOutcome(v, ops, check, semantic) ==
    [value |-> v, ops |-> ops, check |-> check, semantic |-> semantic]

\* journal_search.py lines 34-146
search_private_journal(entries, idx, uid, query, n_results) ==
    LET mine == { r \in entries : r.user_id = uid }
        \* lines 68-136, with supabase_entries as the check left it
        search(supabase_entries, check) ==
            UNION {
              LET results == s.value.results
                  formatted == [query |-> query, results |-> results,
                                count |-> Len(results),
                                tool |-> "semantic_journal_search"]
              IN  IF Len(results) = 0
                  THEN IF Cardinality(supabase_entries) > 0
                       THEN { SearchOutcome(v, <<OpSelect>> \o s.ops \o <<OpILike>>,
                                            check, 0) :
                              v \in KeywordFallback(entries, uid, query, n_results,
                                                    supabase_entries, formatted) }
                       ELSE { SearchOutcome(
                                [message |-> Message("No matching journal entries found. The user may not have written about this topic yet.",
                                                     <<>>, 0)] @@ formatted,
                                <<OpSelect>> \o s.ops, check, 0) }
                  ELSE { SearchOutcome(formatted, <<OpSelect>> \o s.ops, check,
                                       Len(results)) } :
              s \in search_journal_entries(idx, uid, query, n_results) }
    IN  \* lines 138-146: get_supabase_client raises
        { SearchOutcome([query |-> query, results |-> <<>>, count |-> 0,
                         error |-> "client unavailable",
                         message |-> Message("Journal search encountered an error: {error}",
                                             <<>>, 0)],
                        <<>>, "none", -1) }
        \cup
        \* lines 60-63: the check raises
        search(CheckFailed(mine), "raised")
        \cup
        \* lines 40-55: the check answers
        IF NoEntries(mine)
        THEN { SearchOutcome(
                 [query |-> query, results |-> <<>>, count |-> 0,
                  message |-> Message("You haven't created any journal entries yet. Start journaling to enable searches!",
                                      <<>>, 0),
                  supabase_entries |-> 0],
                 <<OpSelect>>, "ok", -1) }
        ELSE search(mine, "ok")

\* pinecone_client.py lines 70-103: the index as add_journal_entry leaves
\* it; the embedding or the upsert may raise, and the exception goes on
add_journal_entry(idx, entry_id, uid, content, date) ==
    { [index |-> Upsert(idx, Vector(uid, entry_id, date, content)),
       vec |-> "ok", ops |-> <<OpEmbed, OpUpsert>>],
      [index |-> idx, vec |-> "embed_failed", ops |-> <<OpEmbed>>],
      [index |-> idx, vec |-> "upsert_failed", ops |-> <<OpEmbed, OpUpsert>>] }

\* pinecone_client.py lines 207-220: the index as delete_journal_entry
\* leaves it; index.delete may raise, and the exception goes on
delete_journal_entry(idx, entry_id, uid) ==
    { [index |-> { v \in idx : v.id # VectorId(uid, entry_id) },
       vec |-> "ok", ops |-> <<OpIndexDelete>>],
      [index |-> idx, vec |-> "failed", ops |-> <<OpIndexDelete>>] }

\* a request that ends with an HTTPException
HTTPException(status_code, detail) ==
    [status_code |-> status_code, detail |-> detail]

\* how a request on the journal went: both stores after it, its response,
\* how the call of each store ended and the calls made
JournalOutcome(entries, idx, v, rel, vec, ops) ==
    [journal_entries |-> entries, index |-> idx, value |-> v,
     rel |-> rel, vec |-> vec, ops |-> ops]

\* index.py lines 671-721: the row of the new entry gets the id the store
\* hands out; a failure of add_journal_entry is logged
create_journal_entry(entries, idx, post) ==
    { JournalOutcome(entries, idx,
                     HTTPException(500, "Failed to create journal entry: store unavailable"),
                     "raised", "", <<OpInsert>>),
      JournalOutcome(entries, idx,
                     HTTPException(500, "Failed to create journal entry in database"),
                     "empty", "", <<OpInsert>>) }
    \cup
    { JournalOutcome(entries \cup {post}, a.index,
                     [success |-> TRUE, entry |-> post],
                     "ok", a.vec, <<OpInsert>> \o a.ops) :
      a \in add_journal_entry(idx, post.id, post.user_id, post.content, post.date) }

\* the vector delete done first, whatever the relational delete says
delete_journal_entry_endpoint_vector_first(entries, idx, uid, entry_id) ==
    LET deleted == { r \in entries : r.id = entry_id /\ r.user_id = uid }
    IN  { JournalOutcome(entries \ deleted, d.index,
                         IF deleted = {}
                         THEN HTTPException(404, "Journal entry not found or already deleted")
                         ELSE [success |-> TRUE,
                               message |-> "Journal entry deleted successfully"],
                         IF deleted = {} THEN "empty" ELSE "ok", d.vec,
                         d.ops \o <<OpDelete>>) :
          d \in delete_journal_entry(idx, entry_id, uid) }

\* index.py lines 818-853: the row is deleted under the row-level security
\* of the caller, so only a row of the caller goes; a failure of
\* delete_journal_entry is logged
delete_journal_entry_endpoint(entries, idx, uid, entry_id) ==
    LET deleted == { r \in entries : r.id = entry_id /\ r.user_id = uid }
    IN  { JournalOutcome(entries, idx,
                         HTTPException(500, "Failed to delete journal entry: store unavailable"),
                         "raised", "", <<OpDelete>>) }
        \cup
        IF deleted = {}
        THEN { JournalOutcome(entries, idx,
                              HTTPException(404, "Journal entry not found or already deleted"),
                              "empty", "", <<OpDelete>>) }
        ELSE { JournalOutcome(entries \ deleted, d.index,
                              [success |-> TRUE,
                               message |-> "Journal entry deleted successfully"],
                              "ok", d.vec, <<OpDelete>> \o d.ops) :
               d \in delete_journal_entry(idx, entry_id, uid) }

JournalCall(op, uid, entry_id, query, n_results, rel, vec, semantic, ops) ==
    [op |-> op, user_id |-> uid, entry_id |-> entry_id, query |-> query,
     n_results |-> n_results, rel |-> rel, vec |-> vec,
     semantic |-> semantic, ops |-> ops]

\* POST /api/journal
CreateJournalEntryRequest ==
    /\ journal_call.op = "none"
    /\ \E post \in Posts :
         /\ post.id \notin issued
         /\ \E o \in create_journal_entry(journal_entries, index, post) :
              /\ journal_entries' = o.journal_entries
              /\ index' = o.index
              /\ issued' = IF o.rel = "ok" THEN issued \cup {post.id} ELSE issued
              /\ journal_call' = JournalCall("create", post.user_id, post.id, <<>>,
                                             0, o.rel, o.vec, -1, o.ops)
              /\ journal_result' = o.value
    /\ UNCHANGED <<queryVars, healthVars, toolVars>>

\* DELETE /api/journal/{entry_id}
DeleteJournalEntryRequest ==
    /\ journal_call.op = "none"
    /\ \E uid \in JournalUsers, post \in Posts :
         \E o \in delete_journal_entry_endpoint(journal_entries, index, uid, post.id) :
              /\ journal_entries' = o.journal_entries
              /\ index' = o.index
              /\ journal_call' = JournalCall("delete", uid, post.id, <<>>, 0,
                                             o.rel, o.vec, -1, o.ops)
              /\ journal_result' = o.value
    /\ UNCHANGED <<issued, queryVars, healthVars, toolVars>>

\* the tool search_private_journal, called by the dispatcher
SearchPrivateJournalCall ==
    /\ journal_call.op = "none"
    /\ \E uid \in JournalUsers, query \in Queries, n_results \in 0..MaxNResults :
         \E o \in search_private_journal(journal_entries, index, uid, query, n_results) :
              /\ journal_call' = JournalCall("search", uid, "", query, n_results,
                                             o.check, "", o.semantic, o.ops)
              /\ journal_result' = o.value
    /\ UNCHANGED <<journal_entries, index, issued, queryVars, healthVars, toolVars>>

\* the response has gone to the caller: the requests on the journal are
\* served one after the other
JournalRespond ==
    /\ journal_call.op # "none"
    /\ journal_call' = NoJournalCall
    /\ journal_result' = EmptyDict
    /\ UNCHANGED <<journal_entries, index, issued, queryVars, healthVars, toolVars>>

\* no process_query run is under way
QueryIdle ==
    /\ pc = "idle"
    /\ user_id = ""
    /\ session_history = <<>>
    /\ history = <<>>
    /\ response = NoResponse
    /\ iteration = 0
    /\ tools_used = <<>>
    /\ tool_results = EmptyDict
    /\ function_calls_to_execute = <<>>
    /\ function_response_parts = <<>>
    /\ sends = 0
    /\ roundDispatches = 0
    /\ lastDispatch = NoDispatch
    /\ dispatched = <<>>
    /\ lastReturn = EmptyDict
    /\ e = NoExc
    /\ result = EmptyDict
    /\ runs = <<>>

JournalSpecInit == QueryIdle /\ JournalInit /\ HealthInit /\ ToolIdle

JournalSpec ==
    JournalSpecInit
    /\ [][
        \/ CreateJournalEntryRequest
        \/ DeleteJournalEntryRequest
        \/ SearchPrivateJournalCall
        \/ JournalRespond
       ]_vars

-----------------------------------------------------------------------------
(* Properties of the journal                                               *)

\* the calls of the latest journal operation include op
Called(op) == \E i \in 1..Len(journal_call.ops) : journal_call.ops[i] = op

\* the user who wrote the entry with this id
WrittenBy(entry_id, uid) ==
    \E p \in Posts : p.id = entry_id /\ p.user_id = uid

\* q occurs in text as a literal substring, letter case apart
Contains(text, q) ==
    \E i \in 0..(Len(text) - Len(q)) :
        \A j \in 1..Len(q) : Lower(text[i + j]) = Lower(q[j])

NoEntriesYet ==
    Message("You haven't created any journal entries yet. Start journaling to enable searches!",
            <<>>, 0)

\* C12: whatever the two stores hold and whatever the query, every entry
\* search_private_journal returns for user u was written by u, on the
\* semantic path and on the keyword-fallback path.
C12_Isolation ==
    journal_call.op = "search" =>
        \A i \in 1..Len(journal_result.results) :
            WrittenBy(journal_result.results[i].entry_id, journal_call.user_id)

\* u1 got a semantic match while the entry of u2, with the same text, is in
\* both stores
C12_Witness ==
    /\ journal_call.op = "search"
    /\ journal_call.user_id = "u1"
    /\ journal_call.semantic >= 1
    /\ journal_result.results[1].entry_id = "e1"
    /\ \E r \in journal_entries : r.id = "e3"
    /\ \E v \in index : v.metadata.entry_id = "e3"

\* C13: when the semantic search gives no match and the user has an entry
\* whose content contains the query as a literal substring (letter case
\* apart), the result holds such an entry with similarity 0.0 and is marked
\* search_method "keyword_fallback".
C13_KeywordFallback ==
    (/\ journal_call.op = "search"
     /\ journal_call.semantic = 0
     /\ \E r \in journal_entries :
            /\ r.user_id = journal_call.user_id
            /\ Contains(r.content, journal_call.query))
    => /\ "search_method" \in DOMAIN journal_result
       /\ journal_result.search_method = "keyword_fallback"
       /\ \E i \in 1..Len(journal_result.results) :
            /\ Contains(journal_result.results[i].content, journal_call.query)
            /\ journal_result.results[i].similarity = 0

C15_Delete ==
    [][ journal_call'.op = "delete" =>
          LET c == journal_call'
              vid == c.user_id \o "#" \o c.entry_id
              gone == \A r \in journal_entries' : r.id # c.entry_id
              success == journal_result' =
                            [success |-> TRUE,
                             message |-> "Journal entry deleted successfully"]
          IN  /\ (c.rel = "ok" /\ c.vec = "ok")
                 => gone /\ success /\ \A v \in index' : v.id # vid
              /\ (c.rel = "ok" /\ c.vec = "failed")
                 => gone /\ success /\ index' = index
              /\ (\E i \in 1..Len(c.ops) : c.ops[i] = OpIndexDelete)
                 => /\ c.ops = <<OpDelete, OpIndexDelete>>
                    /\ c.rel = "ok"
                    /\ \E r \in journal_entries :
                          r.id = c.entry_id /\ r.user_id = c.user_id
        ]_vars

\* the row of e1 is gone, its vector is still there and the request
\* answered success
C15_Witness ==
    /\ journal_call.op = "delete"
    /\ journal_call.entry_id = "e1"
    /\ journal_call.rel = "ok"
    /\ journal_call.vec = "failed"
    /\ journal_result.success
    /\ \A r \in journal_entries : r.id # "e1"
    /\ \E v \in index : v.id = "u1#e1"

-----------------------------------------------------------------------------
(* The health data endpoints of api/index.py: get_health_data with its     *)
(* cache, the Sahha fetch, the mock data and the batch insert, and         *)
(* sync_health_data.  Requests run in separate execution contexts and      *)
(* interleave between their calls of the relational store.                 *)
(*                                                                         *)
(* An instant is a number of ticks; the clock moves one tick at every      *)
(* utcnow() of a request, so that no two requests read the same instant.   *)
(* A value is kept with the Python type that decides its text: an int n,   *)
(* a float of n tenths, or the text "a/b".                                 *)

\* largest number of health data requests of a run
MaxRequests == 2

HealthUsers == {"u1", "u2"}

\* ticks of an hour and of a day
Hour == 4

Day == 24 * Hour

\* the values of the query parameter days (1 to 90)
DaysValues == {1, 3}

IntValue(n) == [kind |-> "int", a |-> n, b |-> 0]

FloatValue(tenths) == [kind |-> "float", a |-> tenths, b |-> 0]

TextValue(a, b) == [kind |-> "text", a |-> a, b |-> b]

\* random.randint(lo, hi) and round(random.uniform(lo, hi), 1): the draw is
\* the low or the high end of the range
Draws == {"lo", "hi"}

Entry(type, unit, kind, lo, hi) ==
    [type |-> type, unit |-> unit, kind |-> kind, lo |-> lo, hi |-> hi]

\* index.py lines 94-192: the entries generate_mock_biomarkers draws for
\* one day, in the order it appends them (floats in tenths)
MockCatalogue ==
    << Entry("steps", "steps", "int", 3000, 12000),
       Entry("floors_climbed", "floors", "int", 5, 25),
       Entry("active_hours", "hours", "float", 20, 60),
       Entry("active_duration", "minutes", "int", 30, 240),
       Entry("activity_low_intensity_duration", "minutes", "int", 60, 180),
       Entry("activity_medium_intensity_duration", "minutes", "int", 20, 90),
       Entry("activity_high_intensity_duration", "minutes", "int", 0, 60),
       Entry("activity_sedentary_duration", "minutes", "int", 300, 600),
       Entry("active_energy_burned", "kcal", "int", 300, 800),
       Entry("total_energy_burned", "kcal", "int", 2000, 3000),
       Entry("height", "cm", "int", 175, 175),
       Entry("weight", "kg", "float", 700, 850),
       Entry("body_mass_index", "kg/m2", "float", 220, 270),
       Entry("body_fat", "%", "float", 150, 250),
       Entry("fat_mass", "kg", "float", 120, 200),
       Entry("lean_mass", "kg", "float", 550, 700),
       Entry("waist_circumference", "cm", "float", 750, 900),
       Entry("resting_energy_burned", "kcal", "int", 1500, 1800),
       Entry("sleep_duration", "hours", "float", 65, 90),
       Entry("sleep_debt", "hours", "float", 0, 40),
       Entry("sleep_interruptions", "count", "int", 0, 5),
       Entry("sleep_in_bed_duration", "hours", "float", 70, 100),
       Entry("sleep_awake_duration", "hours", "float", 5, 20),
       Entry("sleep_light_duration", "hours", "float", 20, 40),
       Entry("sleep_rem_duration", "hours", "float", 10, 25),
       Entry("sleep_deep_duration", "hours", "float", 10, 20),
       Entry("sleep_efficiency", "%", "float", 800, 950),
       Entry("heart_rate", "bpm", "int", 60, 85),
       Entry("heart_rate_resting", "bpm", "int", 55, 70),
       Entry("heart_rate_sleep", "bpm", "int", 50, 65),
       Entry("heart_rate_variability_sdnn", "ms", "int", 20, 60),
       Entry("heart_rate_variability_rmssd", "ms", "int", 15, 80),
       Entry("respiratory_rate", "breaths/min", "int", 12, 20),
       Entry("respiratory_rate_sleep", "breaths/min", "int", 10, 16),
       Entry("oxygen_saturation", "%", "float", 950, 990),
       Entry("oxygen_saturation_sleep", "%", "float", 940, 980),
       Entry("vo2_max", "mL/kg/min", "float", 350, 550),
       Entry("blood_glucose", "mg/dL", "int", 80, 120),
       Entry("blood_pressure_systolic", "mmHg", "int", 110, 135),
       Entry("blood_pressure_diastolic", "mmHg", "int", 70, 85),
       Entry("body_temperature_basal", "celsius", "float", 365, 375),
       Entry("skin_temperature_sleep", "celsius", "float", 330, 340) >>

\* one biomarker as Sahha and the mock generator give it
Biomarker(type, value, unit, timestamp, source) ==
    [type |-> type, value |-> value, unit |-> unit,
     startDateTime |-> timestamp, endDateTime |-> timestamp, source |-> source]

\* next((b["value"] for b in biomarkers if b["type"] == type and
\*       b["startDateTime"] == timestamp), default)
NextValue(biomarkers, type, timestamp, default) ==
    LET hits == { i \in 1..Len(biomarkers) :
                    /\ biomarkers[i].type = type
                    /\ biomarkers[i].startDateTime = timestamp }
    IN  IF hits = {} THEN default
        ELSE biomarkers[CHOOSE i \in hits : \A j \in hits : i <= j].value.a

\* round(x) of Python for x = halves / 2: a tie goes to the even integer
RoundHalves(halves) ==
    IF halves % 2 = 0 THEN halves \div 2
    ELSE IF (halves \div 2) % 2 = 0 THEN halves \div 2 ELSE halves \div 2 + 1

\* round(x, 1) for x = num / den >= 0, in tenths (no tie occurs in the
\* values of the model)
RoundTenths(num, den) == (20 * num + den) \div (2 * den)

\* index.py lines 95-192: the entries drawn for one day
Drawn(timestamp, draw) ==
    [i \in 1..Len(MockCatalogue) |->
        LET c == MockCatalogue[i]
            n == IF draw = "lo" THEN c.lo ELSE c.hi
        IN  Biomarker(c.type,
                      IF c.kind = "int" THEN IntValue(n) ELSE FloatValue(n),
                      c.unit, timestamp, "mock")]

\* index.py lines 94-231: the entries of one day, the three aggregated ones
\* last
MockDay(timestamp, draw) ==
    LET drawn == Drawn(timestamp, draw)
        hr_resting == NextValue(drawn, "heart_rate_resting", timestamp, 60)
        hr_sleep == NextValue(drawn, "heart_rate_sleep", timestamp, 55)
        bp_systolic == NextValue(drawn, "blood_pressure_systolic", timestamp, 120)
        bp_diastolic == NextValue(drawn, "blood_pressure_diastolic", timestamp, 80)
        hrv_sdnn == NextValue(drawn, "heart_rate_variability_sdnn", timestamp, 40)
        hrv_rmssd == NextValue(drawn, "heart_rate_variability_rmssd", timestamp, 40)
    IN  drawn \o
        << Biomarker("heart_rate", IntValue(RoundHalves(hr_resting + hr_sleep)),
                     "bpm", timestamp, "mock"),
           Biomarker("blood_pressure", TextValue(bp_systolic, bp_diastolic),
                     "mmHg", timestamp, "mock"),
           \* ((sdnn / 60) + (rmssd / 100)) / 2 * 100 = (5 sdnn + 3 rmssd) / 6
           Biomarker("hrv", FloatValue(RoundTenths(5 * hrv_sdnn + 3 * hrv_rmssd, 6)),
                     "score", timestamp, "mock") >>

\* index.py lines 76-234
RECURSIVE generate_mock_biomarkers_from(_, _, _, _)
generate_mock_biomarkers_from(i, days, end_date, draw) ==
    IF i >= days THEN <<>>
    ELSE MockDay(end_date - i * Day, draw)
         \o generate_mock_biomarkers_from(i + 1, days, end_date, draw)

generate_mock_biomarkers(days, end_date, draw) ==
    generate_mock_biomarkers_from(0, days, end_date, draw)

\* what Sahha holds for every profile: two samples taken one tick before
\* the first request
SahhaBiomarkers ==
    << Biomarker("steps", IntValue(5000), "steps", 0 - 1, "sahha"),
       Biomarker("heart_rate_resting", IntValue(58), "bpm", 0 - 1, "sahha") >>

\* index.py lines 410-422: the record prepared for a biomarker
Record(uid, biomarker, data_source) ==
    [user_id |-> uid, timestamp |-> biomarker.startDateTime,
     metric_type |-> biomarker.type, value |-> biomarker.value,
     unit |-> biomarker.unit, source |-> data_source]

\* index.py lines 324-332: the biomarker made of a cached row
FromCache(row) ==
    Biomarker(row.metric_type, row.value, row.unit, row.timestamp, row.source)

\* .eq("user_id", user_id).gte("timestamp", start).lte("timestamp", end)
InRange(rows, uid, start, end) ==
    SelectSeq(rows, LAMBDA r : /\ r.user_id = uid
                               /\ r.timestamp >= start
                               /\ r.timestamp <= end)

Timestamps(rows) == { rows[i].timestamp : i \in 1..Len(rows) }

\* .order("timestamp", desc=False)
RECURSIVE OrderByTimestamp(_, _)
OrderByTimestamp(rows, ts) ==
    IF ts = {} THEN <<>>
    ELSE LET t == CHOOSE x \in ts : \A y \in ts : x <= y
         IN  SelectSeq(rows, LAMBDA r : r.timestamp = t)
             \o OrderByTimestamp(rows, ts \ {t})

\* index.py lines 316-320: the latest timestamp is less than an hour old
Fresh(data, end) ==
    \E i \in 1..Len(data) :
        /\ \A j \in 1..Len(data) : data[j].timestamp <= data[i].timestamp
        /\ end - data[i].timestamp < Hour

\* index.py lines 306-333: the cached rows if they are more than 100 and
\* fresh, else nothing
Cached(rows, uid, start, end) ==
    LET data == InRange(rows, uid, start, end)
    IN  IF Len(data) > 100 /\ Fresh(data, end)
        THEN LET ordered == OrderByTimestamp(data, Timestamps(data))
             IN  [i \in 1..Len(data) |-> FromCache(ordered[i])]
        ELSE <<>>

\* the elements of seq at the indices keep, in their order
At(seq, keep) ==
    [k \in 1..Cardinality(keep) |->
        seq[CHOOSE i \in keep : Cardinality({ j \in keep : j <= i }) = k]]

\* index.py lines 437-446: the records whose (timestamp, metric_type) is
\* not among the rows the check found
NewRecords(records_to_insert, existing) ==
    LET existing_keys == { <<existing[i].timestamp, existing[i].metric_type>> :
                             i \in 1..Len(existing) }
    IN  SelectSeq(records_to_insert,
                  LAMBDA r : <<r.timestamp, r.metric_type>> \notin existing_keys)


-----------------------------------------------------------------------------
(* The health data requests, step by step                                  *)

\* a request is served in the first execution context that is free
FreeSlot(s) ==
    /\ hreq[s].pc = "idle"
    /\ \A t \in Slots : t < s => hreq[t].pc # "idle"

\* index.py lines 282-340: the user of the token, the date range and the
\* look into the cache
GetHealthDataStart(s) ==
    /\ FreeSlot(s)
    /\ started < MaxRequests
    /\ started' = started + 1
    /\ now' = now + 1
    /\ \E uid \in HealthUsers, days \in DaysValues, auth \in {"ok", "failed"},
          cache \in {"ok", "failed"} :
         LET end_date == now
             start_date == end_date - days * Day
             cached == IF cache = "ok"
                       THEN Cached(health_metrics, uid, start_date, end_date)
                       ELSE <<>>
         IN  hreq' = [hreq EXCEPT ![s] =
                IF auth = "failed"
                THEN [IdleRequest EXCEPT
                        !.pc = "done", !.kind = "get_health_data",
                        !.response = HTTPException(500, "Failed to fetch health data: invalid token")]
                ELSE [IdleRequest EXCEPT
                        !.pc = "fetch", !.kind = "get_health_data",
                        !.user_id = uid, !.days = days, !.end_date = end_date,
                        !.biomarkers = cached,
                        !.data_source = IF cached # <<>> THEN "cached" ELSE "sahha"]]
    /\ UNCHANGED <<health_metrics, queryVars, journalVars, toolVars>>

\* index.py lines 343-401: without cached data the biomarkers come from
\* Sahha, or from the mock generator when Sahha has none or fails
Biomarkers(r, sahha, draw) ==
    LET call == KeywordCall("get_biomarkers", EmptyDict,
                            [external_id |-> r.user_id, start_date |-> "start",
                             end_date |-> "end", categories |-> "all",
                             types |-> "all"])
    IN  IF r.biomarkers # <<>>
        THEN [data |-> r.biomarkers, data_source |-> "cached"]
        ELSE IF call.exc = NoExc /\ sahha = "data" /\ SahhaBiomarkers # <<>>
        THEN [data |-> SahhaBiomarkers, data_source |-> "sahha"]
        ELSE [data |-> generate_mock_biomarkers(r.days, r.end_date, draw),
              data_source |-> "mock"]

\* index.py lines 343-458: the biomarkers are fetched unless the cache gave
\* them, the records are prepared and looked up in the store
GetHealthDataFetch(s) ==
    /\ hreq[s].pc = "fetch"
    /\ \E sahha \in {"data", "empty", "failed"}, draw \in Draws,
          check \in {"ok", "no_table", "failed"} :
         /\ (hreq[s].biomarkers # <<>> \/ sahha = "data") => draw = "lo"
         /\ hreq[s].biomarkers # <<>> => sahha = "data"
         /\ \E b \in { Biomarkers(hreq[s], sahha, draw) } :
            \E records_to_insert \in
                  { [i \in 1..Len(b.data) |->
                        Record(hreq[s].user_id, b.data[i], b.data_source)] } :
              LET r == hreq[s]
                  start_date == r.end_date - r.days * Day
                  new_records ==
                      CASE check = "ok" ->
                             NewRecords(records_to_insert,
                                        InRange(health_metrics, r.user_id,
                                                start_date, r.end_date))
                        [] check = "no_table" -> <<>>
                        [] check = "failed" -> records_to_insert
              IN  hreq' = [hreq EXCEPT ![s] =
                     [r EXCEPT !.pc = "insert", !.biomarkers = <<>>,
                               !.count = Len(b.data),
                               !.data_source = b.data_source,
                               !.new_records = new_records]]
    /\ UNCHANGED <<health_metrics, now, started, queryVars, journalVars, toolVars>>

\* index.py lines 460-486: the batch insert of the new records and the
\* response
GetHealthDataInsert(s) ==
    /\ hreq[s].pc = "insert"
    /\ \E insert \in {"ok", "failed"} :
         /\ (hreq[s].new_records = <<>>) => insert = "ok"
         /\ health_metrics' = IF insert = "ok"
                              THEN health_metrics \o hreq[s].new_records
                              ELSE health_metrics
    /\ hreq' = [hreq EXCEPT ![s] =
           [@ EXCEPT !.pc = "done", !.new_records = <<>>,
                     !.response = [success |-> TRUE, count |-> hreq[s].count,
                                   source |-> hreq[s].data_source]]]
    /\ UNCHANGED <<now, started, queryVars, journalVars, toolVars>>

FloatLenient(value) ==
    [exc |-> NoExc,
     value |-> FloatValue(IF value.kind = "int" THEN 10 * value.a
                          ELSE IF value.kind = "float" THEN value.a ELSE 0)]

\* index.py line 621:  float(biomarker.get("value", 0))
Float(value) ==
    IF value.kind = "text"
    THEN [exc |-> Exc("ValueError", "could not convert string to float"),
          value |-> value]
    ELSE [exc |-> NoExc,
          value |-> FloatValue(IF value.kind = "int" THEN 10 * value.a ELSE value.a)]

\* index.py lines 592-647: the whole request.  The keywords of the call of
\* get_biomarkers are bound as Python binds them; the inserts that follow
\* a call that returns are done one by one, each of them skipped when
\* float() or the store raises.
SyncHealthDataRequest(s) ==
    /\ FreeSlot(s)
    /\ started < MaxRequests
    /\ started' = started + 1
    /\ now' = now + 1
    /\ \E uid \in HealthUsers, token \in {"ok", "failed"} :
         LET call == KeywordCall("get_biomarkers", EmptyDict,
                                 [profile_token |-> "token", start_date |-> "start",
                                  end_date |-> "end", categories |-> "activity,vitals"])
             failure(msg) ==
                 [IdleRequest EXCEPT
                    !.pc = "done", !.kind = "sync_health_data", !.user_id = uid,
                    !.response = HTTPException(500, "Failed to sync health data: " \o msg)]
         IN  IF token = "failed"
             THEN /\ hreq' = [hreq EXCEPT ![s] = failure("profile token unavailable")]
                  /\ UNCHANGED health_metrics
             ELSE IF call.exc # NoExc
             THEN /\ hreq' = [hreq EXCEPT ![s] = failure(call.exc.msg)]
                  /\ UNCHANGED health_metrics
             ELSE \E stored \in SUBSET { i \in 1..Len(SahhaBiomarkers) :
                                           Float(SahhaBiomarkers[i].value).exc = NoExc } :
                    LET rows == [i \in 1..Len(SahhaBiomarkers) |->
                                   [Record(uid, SahhaBiomarkers[i], "sahha") EXCEPT
                                      !.value = Float(SahhaBiomarkers[i].value).value]]
                    IN  /\ health_metrics' = health_metrics \o At(rows, stored)
                        /\ hreq' = [hreq EXCEPT ![s] =
                              [IdleRequest EXCEPT
                                 !.pc = "done", !.kind = "sync_health_data",
                                 !.user_id = uid,
                                 !.response = [success |-> TRUE,
                                               synced_count |-> Cardinality(stored),
                                               total_fetched |-> Len(SahhaBiomarkers)]]]
    /\ UNCHANGED <<queryVars, journalVars, toolVars>>

\* the response has gone to the caller and the slot is free again
HealthRespond(s) ==
    /\ hreq[s].pc = "done"
    /\ hreq' = [hreq EXCEPT ![s] = IdleRequest]
    /\ UNCHANGED <<health_metrics, now, started, queryVars, journalVars, toolVars>>

\* an hour goes by
HourPasses ==
    /\ now < Hour
    /\ now' = now + Hour
    /\ UNCHANGED <<health_metrics, started, hreq, queryVars, journalVars, toolVars>>

HealthSpecInit == QueryIdle /\ JournalInit /\ HealthInit /\ ToolIdle

HealthSpec ==
    HealthSpecInit
    /\ [][
        \/ \E s \in Slots : GetHealthDataStart(s)
        \/ \E s \in Slots : GetHealthDataFetch(s)
        \/ \E s \in Slots : GetHealthDataInsert(s)
        \/ \E s \in Slots : SyncHealthDataRequest(s)
        \/ \E s \in Slots : HealthRespond(s)
        \/ HourPasses
       ]_vars

-----------------------------------------------------------------------------
(* Properties of the health metrics store                                  *)

\* no two rows of the same user share (timestamp, metric_type)
Deduplicated(rows) ==
    \A i, j \in 1..Len(rows) :
        (/\ rows[i].user_id = rows[j].user_id
         /\ rows[i].timestamp = rows[j].timestamp
         /\ rows[i].metric_type = rows[j].metric_type) => i = j

\* every row of before is still in after, at its place and unchanged
AppendedOnly(before, after) ==
    /\ Len(before) <= Len(after)
    /\ \A i \in 1..Len(before) : after[i] = before[i]

\* C16: after any sequence and interleaving of get_health_data and
\* sync_health_data requests, health_metrics never holds two samples of one
\* user with the same (timestamp, metric_type), and no stored sample is
\* ever modified or removed.
C16_DedupAppendOnly ==
    [][ /\ Deduplicated(health_metrics')
        /\ AppendedOnly(health_metrics, health_metrics') ]_vars

-----------------------------------------------------------------------------
(* The analysis tools run_forecasting and detect_anomalies                 *)
(* (api/tools/forecasting.py, api/tools/anomaly_detection.py).             *)
(*                                                                         *)
(* The input of a tool is the rows the store returns for the metric and    *)
(* the arguments of the call.  A value of a row is kept as in the health   *)
(* metrics store; the readings of the model are whole numbers, so that     *)
(* sums and means of them are exact in floating point too.  Daily values   *)
(* are kept in twentieths, numbers of a result in hundredths.  The fitted  *)
(* models belong to statsmodels and scikit-learn: of them the model keeps  *)
(* that a fit may raise, that ARIMA forecasts as many steps as asked when  *)
(* that is at least one, and that IsolationForest marks some points.       *)

\* most days of history the store returns
MaxDays == 15

\* largest number of days a forecast is asked for
MaxForecastDays == 2

\* the reading of day d, for each course of the readings over the days
Reading(shape, d, n_days) ==
    CASE shape = "constant" -> 7
      [] shape = "last" -> IF d = n_days THEN 8 ELSE 7
      [] shape = "ramp" -> 6 + (d % 3)

\* result.data: the rows of days d..n_days in timestamp order.  The first
\* extra days have a second reading, the first reading of the first bad
\* days is a text such as "120/80".
RECURSIVE Rows(_, _, _, _, _)
Rows(d, n_days, extra, bad, shape) ==
    IF d > n_days THEN <<>>
    ELSE LET first == [timestamp |-> [date |-> d, time |-> 1],
                       value |-> IF d <= bad THEN TextValue(120, 80)
                                 ELSE IntValue(Reading(shape, d, n_days))]
             second == [timestamp |-> [date |-> d, time |-> 2],
                        value |-> IntValue(Reading(shape, d, n_days) + 1)]
         IN  (IF d <= extra THEN <<first, second>> ELSE <<first>>)
             \o Rows(d + 1, n_days, extra, bad, shape)

\* the inputs of a tool call: the rows of 0 to MaxDays days, the metric
\* name, forecast_days as an int or as the float the LLM's function call
\* carries, and contamination in tenths
ToolInputs ==
    { [data |-> Rows(1, n_days, extra, bad, shape), metric_name |-> m,
       forecast_days |-> fd, contamination |-> c] :
        n_days \in {0, 4, 5, 13, 14, MaxDays}, extra \in 0..1, bad \in 0..2,
        shape \in {"constant", "last", "ramp"},
        m \in {"steps", "Heart Rate"},
        fd \in { [type |-> "int", n |-> k] : k \in (0 - 1)..MaxForecastDays }
               \cup { [type |-> "float", n |-> MaxForecastDays] },
        c \in {1, 7} }

metric_mapping_chained ==
    ("hr" :> "heart rate") @@ ("heart rate" :> "heart_rate_resting")

\* forecasting.py lines 33-82: the aliases and the metric types they stand
\* for
metric_mapping ==
    ("heart rate" :> "heart_rate_resting") @@ ("heartrate" :> "heart_rate_resting")
    @@ ("heart_rate" :> "heart_rate_resting") @@ ("resting heart rate" :> "heart_rate_resting")
    @@ ("resting heartrate" :> "heart_rate_resting") @@ ("hr" :> "heart_rate_resting")
    @@ ("heart rate sleep" :> "heart_rate_sleep") @@ ("sleep heart rate" :> "heart_rate_sleep")
    @@ ("hrv" :> "heart_rate_variability_sdnn") @@ ("heart rate variability" :> "heart_rate_variability_sdnn")
    @@ ("hrv sdnn" :> "heart_rate_variability_sdnn") @@ ("hrv rmssd" :> "heart_rate_variability_rmssd")
    @@ ("sleep" :> "sleep_duration") @@ ("sleep time" :> "sleep_duration")
    @@ ("hours of sleep" :> "sleep_duration") @@ ("deep sleep" :> "sleep_deep_duration")
    @@ ("rem sleep" :> "sleep_rem_duration") @@ ("light sleep" :> "sleep_light_duration")
    @@ ("step count" :> "steps") @@ ("daily steps" :> "steps")
    @@ ("walking" :> "steps") @@ ("active time" :> "active_duration")
    @@ ("activity" :> "active_duration") @@ ("exercise" :> "active_duration")
    @@ ("weight" :> "weight") @@ ("body weight" :> "weight")
    @@ ("bmi" :> "body_mass_index") @@ ("body mass index" :> "body_mass_index")
    @@ ("body fat" :> "body_fat") @@ ("fat percentage" :> "body_fat")
    @@ ("oxygen" :> "oxygen_saturation") @@ ("o2" :> "oxygen_saturation")
    @@ ("spo2" :> "oxygen_saturation") @@ ("blood pressure" :> "blood_pressure_systolic")
    @@ ("systolic" :> "blood_pressure_systolic") @@ ("diastolic" :> "blood_pressure_diastolic")
    @@ ("respiratory rate" :> "respiratory_rate") @@ ("breathing rate" :> "respiratory_rate")
    @@ ("glucose" :> "blood_glucose") @@ ("blood sugar" :> "blood_glucose")

\* forecasting.py lines 15-93.  lower().strip() changes the names of the
\* model that have a capital letter or a blank at an end, every other name
\* of the model is in lower case and stripped already.
normalize_metric_name(metric_name) ==
    LET lower_strip == ("Heart Rate" :> "heart rate") @@ ("HRV" :> "hrv")
                       @@ (" steps " :> "steps") @@ ("Weight" :> "weight")
                       @@ ("Mood Score" :> "mood score")
                       @@ (" Blood Sugar" :> "blood sugar")
        normalized == IF metric_name \in DOMAIN lower_strip
                      THEN lower_strip[metric_name]
                      ELSE metric_name
    IN  IF normalized \in DOMAIN metric_mapping
        THEN metric_mapping[normalized]
        ELSE metric_name

\* most applications of normalize_metric_name to its own result
MaxApplications == 2

\* normalize_metric_name applied to the name of the input, or to the result
\* of the application before
NormalizeMetricNameCall ==
    /\ tool_input # NoToolInput
    /\ "metric_name" \in DOMAIN tool_input
    /\ tool_result.op \in {"none", "normalize_metric_name"}
    /\ \E applied \in { IF tool_result.op = "none" THEN 0
                        ELSE tool_result.value.applied } :
       \E name \in { IF applied = 0 THEN tool_input.metric_name
                     ELSE tool_result.value.metric_name } :
          /\ applied < MaxApplications
          /\ tool_result' = [op |-> "normalize_metric_name",
                             value |-> [metric_name |-> normalize_metric_name(name),
                                        applied |-> applied + 1],
                             raised |-> FALSE, fetch |-> "", fits |-> <<>>]
    /\ UNCHANGED <<tool_input, queryVars, journalVars, healthVars>>

\* the text of an error: an f-string with the name and the number it
\* shows, or str(e)
ErrorText(fmt, name, n) == [fmt |-> fmt, name |-> name, n |-> n]

\* pd.to_numeric(value, errors='coerce'), in tenths
ToNumeric(value) ==
    IF value.kind = "text" THEN [nan |-> TRUE, tenths |-> 0]
    ELSE [nan |-> FALSE,
          tenths |-> IF value.kind = "int" THEN 10 * value.a ELSE value.a]

RECURSIVE SumSeq(_)
SumSeq(s) == IF s = <<>> THEN 0 ELSE Head(s) + SumSeq(Tail(s))

DailyValuesAllRows(data) ==
    LET dates == { data[i].timestamp.date : i \in 1..Len(data) }
        readings(d) == SelectSeq(data, LAMBDA r : r.timestamp.date = d)
        mean(d) == (2 * SumSeq([i \in 1..Len(readings(d)) |->
                                  ToNumeric(readings(d)[i].value).tenths]))
                   \div Len(readings(d))
        nth(k) == CHOOSE d \in dates : Cardinality({ x \in dates : x <= d }) = k
    IN  [k \in 1..Cardinality(dates) |-> [date |-> nth(k), value |-> mean(nth(k))]]

\* forecasting.py lines 150-161: the rows whose value is a number, grouped
\* by date, each date with the mean of its readings (in twentieths, exact
\* for one or two readings), in date order
DailyValues(data) ==
    LET numeric == SelectSeq(data, LAMBDA r : ~ToNumeric(r.value).nan)
        dates == { numeric[i].timestamp.date : i \in 1..Len(numeric) }
        readings(d) == SelectSeq(numeric, LAMBDA r : r.timestamp.date = d)
        mean(d) == (2 * SumSeq([i \in 1..Len(readings(d)) |->
                                  ToNumeric(readings(d)[i].value).tenths]))
                   \div Len(readings(d))
        nth(k) == CHOOSE d \in dates : Cardinality({ x \in dates : x <= d }) = k
    IN  [k \in 1..Cardinality(dates) |-> [date |-> nth(k), value |-> mean(nth(k))]]

\* the integer part of the square root
Isqrt(n) == CHOOSE r \in 0..n : r * r <= n /\ (r + 1) * (r + 1) > n

\* seq[-k:]
LastOf(seq, k) ==
    SubSeq(seq, IF Len(seq) > k THEN Len(seq) - k + 1 ELSE 1, Len(seq))

\* range(n) for the n of the call: its length, or the TypeError of a float
Range(n) ==
    IF n.type = "int"
    THEN [exc |-> NoExc, len |-> IF n.n > 0 THEN n.n ELSE 0]
    ELSE [exc |-> Exc("TypeError", "float object cannot be interpreted as an integer"),
          len |-> 0]

\* forecasting.py lines 239-276.  With x the recent values, m their number,
\* S their sum and Q the sum of their squares, the mean is S / m and the
\* sample standard deviation sqrt((m Q - S^2) / (m (m - 1))).
simple_forecast_fallback(daily_values, forecast_days, metric_name) ==
    LET recent == LastOf(daily_values, 7)
        m == Len(recent)
        S == SumSeq([i \in 1..m |-> recent[i].value])
        Q == SumSeq([i \in 1..m |-> recent[i].value * recent[i].value])
        recent_avg == (10 * S + m) \div (2 * m)
        recent_std == Isqrt((10000 * (m * Q - S * S)) \div (400 * m * (m - 1)))
        last_date == daily_values[Len(daily_values)].date
        range == Range(forecast_days)
    IN  IF range.exc # NoExc THEN [exc |-> range.exc, value |-> EmptyDict]
        ELSE [exc |-> NoExc,
              value |->
                [forecast_dates |-> [i \in 1..range.len |-> last_date + i],
                 forecast_values |-> [i \in 1..range.len |-> recent_avg],
                 confidence_intervals |->
                    [i \in 1..range.len |->
                        [low |-> recent_avg - (196 * recent_std) \div 100,
                         high |-> recent_avg + (196 * recent_std) \div 100]],
                 metric_name |-> metric_name,
                 model_info |-> [type |-> "Simple Moving Average (Fallback)",
                                 window |-> 7],
                 note |-> "ARIMA model failed, using simple moving average"]]

\* forecasting.py lines 174-182: ARIMA(daily_values, order=(1, 1, 1)).fit(),
\* forecast(steps) and get_forecast(steps).conf_int(alpha=0.05) as the
\* library answers them: the fit may raise, steps below one (or not an
\* int) raise, and else there are steps values and steps intervals, of
\* one of two standard errors
ARIMA(daily_values, steps) ==
    LET last == 5 * daily_values[Len(daily_values)].value
    IN  { [exc |-> Exc("ValueError", "ARIMA fit failed"),
           forecast |-> <<>>, conf_int |-> <<>>] }
        \cup
        IF steps.type = "int" /\ steps.n >= 1
        THEN { [exc |-> NoExc,
                forecast |-> [i \in 1..steps.n |-> last],
                conf_int |-> [i \in 1..steps.n |->
                                <<last - (196 * se) \div 100,
                                  last + (196 * se) \div 100>>]] :
                 se \in {25, 100} }
        ELSE { [exc |-> Exc("ValueError", "Prediction must have end after start."),
                forecast |-> <<>>, conf_int |-> <<>>] }

\* what a tool call gave: the returned dict, whether an exception left
\* the tool, and the models it fitted
ToolOutcome(value, raised, fits) ==
    [value |-> value, raised |-> raised, fits |-> fits]

\* forecasting.py lines 96-236: the outcomes of a call whose fetch went as
\* fetch says
run_forecasting(metric_name, forecast_days, data, fetch) ==
    LET normalized_metric == normalize_metric_name(metric_name)
        daily_values == DailyValues(data)
        \* lines 231-236
        except(exc, fits) ==
            IF exc.type \in ExceptionTypes
            THEN ToolOutcome([forecast_values |-> <<>>,
                              error |-> ErrorText(exc.msg, "", 0)], FALSE, fits)
            ELSE ToolOutcome(EmptyDict, TRUE, fits)
        \* lines 226-229
        fallback ==
            LET r == simple_forecast_fallback(daily_values, forecast_days, metric_name)
            IN  IF r.exc # NoExc THEN except(r.exc, <<"ARIMA">>)
                ELSE ToolOutcome(r.value, FALSE, <<"ARIMA">>)
        \* lines 184-224
        forecast(a) ==
            LET range == Range(forecast_days)
                last_date == daily_values[Len(daily_values)].date
                recent == LastOf(daily_values, 7)
            IN  IF range.exc # NoExc THEN fallback
                ELSE ToolOutcome(
                       [forecast_dates |-> [i \in 1..range.len |-> last_date + i],
                        forecast_values |-> a.forecast,
                        confidence_intervals |->
                           [i \in 1..Len(a.conf_int) |->
                               [low |-> a.conf_int[i][1], high |-> a.conf_int[i][2]]],
                        metric_name |-> normalized_metric,
                        original_query |-> metric_name,
                        model_info |-> [type |-> "ARIMA", order |-> <<1, 1, 1>>],
                        historical_data |->
                           [dates |-> [i \in 1..Len(recent) |-> recent[i].date],
                            values |-> [i \in 1..Len(recent) |-> 5 * recent[i].value]]],
                       FALSE, <<"ARIMA">>)
    IN  IF fetch = "raises"
        THEN { except(Exc("ServiceUnavailable", "store unavailable"), <<>>) }
        ELSE IF data = <<>> \/ Len(data) < 14
        THEN { ToolOutcome(
                 [forecast_values |-> <<>>,
                  error |-> ErrorText("Insufficient data for forecasting {}. Need at least 14 data points, got {}",
                                      normalized_metric, Len(data)),
                  data_points |-> Len(data),
                  queried_metric |-> normalized_metric,
                  original_query |-> metric_name], FALSE, <<>>) }
        ELSE IF Len(daily_values) < 14
        THEN { ToolOutcome(
                 [forecast_values |-> <<>>,
                  error |-> ErrorText("Insufficient daily data points for ARIMA. Need at least 14 days.",
                                      "", 0),
                  data_points |-> Len(daily_values)], FALSE, <<>>) }
        ELSE { IF a.exc # NoExc THEN fallback ELSE forecast(a) :
                 a \in ARIMA(daily_values, forecast_days) }

\* IsolationForest(contamination, random_state=42, n_estimators=100)
\* .fit_predict(values) as the library answers it: a contamination outside
\* (0, 0.5] raises, else the indices it marks -1 (at most one here)
IsolationForest(values, contamination) ==
    IF contamination < 1 \/ contamination > 5
    THEN { [exc |-> Exc("ValueError", "The contamination parameter of IsolationForest must be a float in the range (0.0, 0.5]"),
            anomaly_indices |-> {}] }
    ELSE { [exc |-> NoExc, anomaly_indices |-> A] :
             A \in {{}} \cup { {i} : i \in 1..Len(values) } }

\* anomaly_detection.py lines 15-135: the outcomes of a call whose fetch
\* went as fetch says.  np.std is the population standard deviation
\* sqrt((m Q - S^2) / m^2).
detect_anomalies(metric_name, contamination, data, fetch) ==
    LET normalized_metric == normalize_metric_name(metric_name)
        \* lines 72-80
        points == SelectSeq(data, LAMBDA point : Float(point.value).exc = NoExc)
        values == [i \in 1..Len(points) |-> Float(points[i].value).value.a]
        timestamps == [i \in 1..Len(points) |-> points[i].timestamp]
        m == Len(values)
        S == SumSeq(values)
        Q == SumSeq([i \in 1..m |-> values[i] * values[i]])
        nth(A, k) == CHOOSE i \in A : Cardinality({ j \in A : j <= i }) = k
        \* lines 130-135
        except(exc, fits) ==
            IF exc.type \in ExceptionTypes
            THEN ToolOutcome([anomalies_found |-> FALSE,
                              error |-> ErrorText(exc.msg, "", 0)], FALSE, fits)
            ELSE ToolOutcome(EmptyDict, TRUE, fits)
        \* lines 99-128
        found(A) ==
            ToolOutcome(
              [anomalies_found |-> Cardinality(A) > 0,
               anomaly_count |-> Cardinality(A),
               anomaly_dates |-> [k \in 1..Cardinality(A) |-> timestamps[nth(A, k)]],
               anomaly_values |-> [k \in 1..Cardinality(A) |-> 10 * values[nth(A, k)]],
               mean_value |-> (20 * S + m) \div (2 * m),
               std_value |-> Isqrt((100 * (m * Q - S * S)) \div (m * m)),
               total_data_points |-> m,
               metric_name |-> normalized_metric,
               original_query |-> metric_name,
               date_range |-> [start |-> "start_date", end |-> "end_date"]],
              FALSE, <<"IsolationForest">>)
    IN  IF fetch = "raises"
        THEN { except(Exc("ServiceUnavailable", "store unavailable"), <<>>) }
        ELSE IF data = <<>> \/ Len(data) < 5
        THEN { ToolOutcome(
                 [anomalies_found |-> FALSE,
                  error |-> ErrorText("Insufficient data for {}. Need at least 5 data points.",
                                      metric_name, 0),
                  data_points |-> Len(data)], FALSE, <<>>) }
        ELSE IF Len(values) < 5
        THEN { ToolOutcome(
                 [anomalies_found |-> FALSE,
                  error |-> ErrorText("Insufficient numeric data for {}. Need at least 5 data points.",
                                      metric_name, 0),
                  data_points |-> Len(values)], FALSE, <<>>) }
        ELSE { IF f.exc # NoExc THEN except(f.exc, <<"IsolationForest">>)
               ELSE found(f.anomaly_indices) :
                 f \in IsolationForest(values, contamination) }

\* one call of run_forecasting on the input
RunForecastingCall ==
    /\ tool_input # NoToolInput
    /\ "metric_name" \in DOMAIN tool_input
    /\ tool_result.op = "none"
    /\ \E fetch \in {"ok", "raises"} :
       \E o \in run_forecasting(tool_input.metric_name, tool_input.forecast_days,
                                tool_input.data, fetch) :
          tool_result' = [op |-> "run_forecasting", value |-> o.value,
                          raised |-> o.raised, fetch |-> fetch, fits |-> o.fits]
    /\ UNCHANGED <<tool_input, queryVars, journalVars, healthVars>>

\* one call of detect_anomalies on the input
DetectAnomaliesCall ==
    /\ tool_input # NoToolInput
    /\ "metric_name" \in DOMAIN tool_input
    /\ tool_result.op = "none"
    /\ \E fetch \in {"ok", "raises"} :
       \E o \in detect_anomalies(tool_input.metric_name, tool_input.contamination,
                                 tool_input.data, fetch) :
          tool_result' = [op |-> "detect_anomalies", value |-> o.value,
                          raised |-> o.raised, fetch |-> fetch, fits |-> o.fits]
    /\ UNCHANGED <<tool_input, queryVars, journalVars, healthVars>>

-----------------------------------------------------------------------------
(* find_correlations (tools/correlation_analysis.py)                       *)
(*                                                                         *)
(* The rows are those of every metric of the user.  A Pearson coefficient  *)
(* is kept exactly: its sign, and its square as the fraction num / den of  *)
(* the sums pandas computes it from, so that a comparison of it with a     *)
(* threshold in hundredths is a comparison of whole numbers.               *)

\* most days of history the correlation rows cover
MaxCorrDays == 4

\* the metric types of the rows, in the order pivot_table sorts its columns
MetricColumns == <<"heart_rate_resting", "sleep_duration", "steps">>

\* result.data of the fetch: the rows of days d..n_days, each day those of
\* the metrics in turn; with_text adds a blood pressure row of day 1 whose
\* value is the text "120/80"
RECURSIVE CorrRows(_, _, _, _)
CorrRows(d, n_days, courses, with_text) ==
    IF d > n_days THEN <<>>
    ELSE LET \* the readings of a metric on day d, for each course of them
             Readings(course) ==
                 CASE course = "up" -> <<d>>
                   [] course = "down" -> <<5 - d>>
                   [] course = "flat" -> <<2>>
                   [] course = "zig" -> <<IF d % 2 = 1 THEN 1 ELSE 3>>
                   [] course = "step" -> <<IF d <= 2 THEN 1 ELSE 2>>
                   [] course = "twice" -> <<d - 1, d + 1>>
                   [] course = "late" -> IF d = n_days THEN <<3>> ELSE <<>>
                   [] course = "absent" -> <<>>
             rows(k) ==
                 LET readings == Readings(courses[k])
                 IN  [i \in 1..Len(readings) |->
                        [timestamp |-> [date |-> d, time |-> 2 * k + i],
                         value |-> IntValue(readings[i]),
                         metric_type |-> MetricColumns[k]]]
             text == IF with_text /\ d = 1
                     THEN << [timestamp |-> [date |-> 1, time |-> 1],
                              value |-> TextValue(120, 80),
                              metric_type |-> "blood_pressure"] >>
                     ELSE <<>>
         IN  text \o rows(1) \o rows(2) \o rows(3)
             \o CorrRows(d + 1, n_days, courses, with_text)

\* the inputs of find_correlations: the rows, and min_correlation in
\* hundredths
CorrelationInputs ==
    { [data |-> CorrRows(1, n_days, courses, with_text), min_correlation |-> m] :
        n_days \in {3, MaxCorrDays},
        courses \in [1..3 -> {"up", "down", "flat", "zig", "step", "twice",
                              "late", "absent"}],
        with_text \in BOOLEAN,
        m \in {0 - 50, 0, 30, 70, 100} }

\* correlation_analysis.py lines 61-73: the frame of the rows pivoted to one
\* column a metric type and one row a date, a cell the mean of the readings
\* (a whole number for the readings of the model) or NaN.  A value column
\* that holds a text is of dtype object, and its mean raises.
PivotTable(data) ==
    LET types == { data[i].metric_type : i \in 1..Len(data) }
        dates == { data[i].timestamp.date : i \in 1..Len(data) }
        readings(m, d) == SelectSeq(data, LAMBDA r : r.metric_type = m
                                                     /\ r.timestamp.date = d)
        cell(m, d) ==
            IF readings(m, d) = <<>> THEN [nan |-> TRUE, v |-> 0]
            ELSE [nan |-> FALSE,
                  v |-> SumSeq([i \in 1..Len(readings(m, d)) |->
                                  readings(m, d)[i].value.a])
                        \div Len(readings(m, d))]
    IN  IF \E i \in 1..Len(data) : data[i].value.kind = "text"
        THEN [exc |-> Exc("TypeError", "agg function failed [how->mean,dtype->object]"),
              columns |-> <<>>, dates |-> {}, cells |-> EmptyDict]
        ELSE [exc |-> NoExc,
              columns |-> SelectSeq(MetricColumns, LAMBDA m : m \in types),
              dates |-> dates,
              cells |-> [m \in types |-> [d \in dates |-> cell(m, d)]]]

\* pivot_df.corr() for the columns x and y: Pearson's coefficient over the
\* dates both have a value on, NaN when there are fewer than two of them or
\* one of the columns is constant over them
Corr(x, y, dates) ==
    LET last == IF dates = {} THEN 0 ELSE CHOOSE d \in dates : \A o \in dates : o <= d
        common(d) == d \in dates /\ ~x[d].nan /\ ~y[d].nan
        sum(f(_)) == SumSeq([d \in 1..last |-> IF common(d) THEN f(d) ELSE 0])
        one(d) == 1
        fx(d) == x[d].v
        fy(d) == y[d].v
        fxy(d) == x[d].v * y[d].v
        fxx(d) == x[d].v * x[d].v
        fyy(d) == y[d].v * y[d].v
        n == sum(one)
        cov == n * sum(fxy) - sum(fx) * sum(fy)
        var_x == n * sum(fxx) - sum(fx) * sum(fx)
        var_y == n * sum(fyy) - sum(fy) * sum(fy)
    IN  IF n < 2 \/ var_x = 0 \/ var_y = 0
        THEN [nan |-> TRUE, sign |-> 0, num |-> 0, den |-> 1]
        ELSE [nan |-> FALSE,
              sign |-> IF cov > 0 THEN 1 ELSE IF cov < 0 THEN 0 - 1 ELSE 0,
              num |-> cov * cov, den |-> var_x * var_y]

AbsAtLeastHalf(corr_value, hundredths) ==
    \/ hundredths <= 0
    \/ 4 * 10000 * corr_value.num >= hundredths * hundredths * corr_value.den

\* abs(corr_value) >= a number of hundredths
AbsAtLeast(corr_value, hundredths) ==
    \/ hundredths <= 0
    \/ 10000 * corr_value.num >= hundredths * hundredths * corr_value.den

\* correlation_analysis.py lines 132-140
interpret_correlation(corr_value) ==
    IF AbsAtLeast(corr_value, 70) THEN "strong"
    ELSE IF AbsAtLeast(corr_value, 40) THEN "moderate"
    ELSE "weak"

\* correlation_analysis.py lines 14-129: the result of
\* find_correlations(user_id, min_correlation) on the rows the fetch returns
find_correlations(min_correlation, data, fetch) ==
    LET pivot_df == PivotTable(data)
        except(exc) ==
            IF exc.type \in ExceptionTypes
            THEN ToolOutcome([correlations |-> <<>>,
                              error |-> ErrorText(exc.msg, "", 0)], FALSE, <<>>)
            ELSE ToolOutcome(EmptyDict, TRUE, <<>>)
        metrics == pivot_df.columns
        corr_value(i, j) == Corr(pivot_df.cells[metrics[i]],
                                 pivot_df.cells[metrics[j]], pivot_df.dates)
        entry(i, j) ==
            [metric1 |-> metrics[i], metric2 |-> metrics[j],
             correlation |-> corr_value(i, j),
             strength |-> interpret_correlation(corr_value(i, j)),
             direction |-> IF corr_value(i, j).sign > 0 THEN "positive"
                           ELSE "negative"]
        \* lines 89-106: the loop over i and over j
        RECURSIVE pairs(_, _)
        pairs(i, j) ==
            IF i > Len(metrics) THEN <<>>
            ELSE IF j > Len(metrics) THEN pairs(i + 1, 1)
            ELSE (IF /\ i < j
                     /\ ~corr_value(i, j).nan
                     /\ AbsAtLeast(corr_value(i, j), min_correlation)
                  THEN <<entry(i, j)>> ELSE <<>>)
                 \o pairs(i, j + 1)
        \* line 109: sort(key=abs(correlation), reverse=True), which keeps
        \* the order of entries of equal key
        RECURSIVE insert(_, _)
        insert(s, x) ==
            IF s # <<>>
               /\ Head(s).correlation.num * x.correlation.den
                    >= x.correlation.num * Head(s).correlation.den
            THEN <<Head(s)>> \o insert(Tail(s), x)
            ELSE <<x>> \o s
        RECURSIVE sorted(_)
        sorted(s) == IF s = <<>> THEN <<>>
                     ELSE insert(sorted(SubSeq(s, 1, Len(s) - 1)), s[Len(s)])
        earliest == CHOOSE d \in pivot_df.dates : \A o \in pivot_df.dates : d <= o
        latest == CHOOSE d \in pivot_df.dates : \A o \in pivot_df.dates : o <= d
    IN  IF fetch = "raises"
        THEN except(Exc("ServiceUnavailable", "store unavailable"))
        ELSE IF data = <<>> \/ Len(data) < 10
        THEN ToolOutcome(
               [correlations |-> <<>>,
                error |-> ErrorText("Insufficient data for correlation analysis. Need at least 10 data points.",
                                    "", 0),
                data_points |-> Len(data)], FALSE, <<>>)
        ELSE IF pivot_df.exc # NoExc THEN except(pivot_df.exc)
        ELSE IF Len(metrics) < 2
        THEN ToolOutcome(
               [correlations |-> <<>>,
                error |-> ErrorText("Need at least 2 different metric types for correlation analysis",
                                    "", 0),
                metrics_found |-> metrics], FALSE, <<>>)
        ELSE ToolOutcome(
               [correlations |-> sorted(pairs(1, 1)),
                metrics_analyzed |-> metrics,
                total_days |-> Cardinality(pivot_df.dates),
                date_range |-> [start |-> earliest, end |-> latest]], FALSE, <<>>)

\* one call of find_correlations on the input
FindCorrelationsCall ==
    /\ "min_correlation" \in DOMAIN tool_input
    /\ tool_result.op = "none"
    /\ \E fetch \in {"ok", "raises"} :
       \E o \in { find_correlations(tool_input.min_correlation, tool_input.data,
                                    fetch) } :
          tool_result' = [op |-> "find_correlations", value |-> o.value,
                          raised |-> o.raised, fetch |-> fetch, fits |-> o.fits]
    /\ UNCHANGED <<tool_input, queryVars, journalVars, healthVars>>

\* the inputs of one tool call: those of run_forecasting and
\* detect_anomalies, those of find_correlations, and for
\* normalize_metric_name every alias, every metric type an alias stands for
\* and names with capitals, blanks or no alias, over an empty store
ToolSpecInit ==
    /\ QueryIdle /\ JournalInit /\ HealthInit
    /\ tool_input \in ToolInputs \cup CorrelationInputs
                      \cup { [NoToolInput EXCEPT !.metric_name = m] :
                               m \in DOMAIN metric_mapping
                                     \cup { metric_mapping[k] : k \in DOMAIN metric_mapping }
                                     \cup {"Heart Rate", "HRV", " steps ", "Weight",
                                           "Mood Score", " Blood Sugar", "mood",
                                           "heart_rate_sleep"} }
    /\ tool_result = NoToolResult

ToolSpec ==
    ToolSpecInit
    /\ [][
        \/ RunForecastingCall
        \/ DetectAnomaliesCall
        \/ FindCorrelationsCall
        \/ NormalizeMetricNameCall
       ]_vars

-----------------------------------------------------------------------------
(* Properties of the analysis tools                                        *)

\* the rows of data whose value is a number
NumericRows(data) == { i \in 1..Len(data) : data[i].value.kind # "text" }

\* the calendar days that have a row whose value is a number
NumericDays(data) == { data[i].timestamp.date : i \in NumericRows(data) }

\* C17: whenever run_forecasting returns a forecast, forecast_dates,
\* forecast_values and confidence_intervals each have exactly forecast_days
\* elements, for every forecast_days the caller or the LLM supplies, on
\* the ARIMA path and on the moving-average fallback path.
C17_ForecastLengths ==
    (/\ tool_result.op = "run_forecasting"
     /\ "forecast_dates" \in DOMAIN tool_result.value)
    => /\ Len(tool_result.value.forecast_dates) = tool_input.forecast_days.n
       /\ Len(tool_result.value.forecast_values) = tool_input.forecast_days.n
       /\ Len(tool_result.value.confidence_intervals) = tool_input.forecast_days.n

\* C18: for any input with at least 14 daily points, every confidence
\* interval run_forecasting returns has low < high strictly, on the ARIMA
\* path and on the fallback path, a constant series included.
C18_IntervalsStrict ==
    (/\ tool_result.op = "run_forecasting"
     /\ Cardinality(NumericDays(tool_input.data)) >= 14
     /\ "confidence_intervals" \in DOMAIN tool_result.value)
    => \A i \in 1..Len(tool_result.value.confidence_intervals) :
          tool_result.value.confidence_intervals[i].low
             < tool_result.value.confidence_intervals[i].high

\* C19: when fewer than 14 raw samples are fetched, or fewer than 14
\* distinct calendar days remain after the non-numeric values are dropped,
\* run_forecasting returns forecast_values == [] with an error stating
\* insufficiency, raises nothing and fits no model.
C19_InsufficientForecastData ==
    (/\ tool_result.op = "run_forecasting"
     /\ tool_result.fetch = "ok"
     /\ \/ Len(tool_input.data) < 14
        \/ Cardinality(NumericDays(tool_input.data)) < 14)
    => /\ ~tool_result.raised
       /\ "forecast_values" \in DOMAIN tool_result.value
       /\ tool_result.value.forecast_values = <<>>
       /\ "error" \in DOMAIN tool_result.value
       /\ tool_result.value.error.fmt \in
            { "Insufficient data for forecasting {}. Need at least 14 data points, got {}",
              "Insufficient daily data points for ARIMA. Need at least 14 days." }
       /\ tool_result.fits = <<>>

\* 14 raw samples of which one is not a number: 13 days remain
C19_Witness ==
    /\ tool_result.op = "run_forecasting"
    /\ tool_result.fetch = "ok"
    /\ Len(tool_input.data) >= 14
    /\ Cardinality(NumericDays(tool_input.data)) = 13
    /\ tool_result.value.forecast_values = <<>>
    /\ tool_result.value.error.fmt
         = "Insufficient daily data points for ARIMA. Need at least 14 days."
    /\ tool_result.value.data_points = 13
    /\ tool_result.fits = <<>>

\* C20: for every input in which fewer than 5 samples are numeric (no
\* data, fewer than 5 rows, or 5 or more rows of which fewer than 5 are
\* numbers), detect_anomalies returns anomalies_found == False with an
\* error field, raises nothing and does not fit the outlier model.
C20_InsufficientAnomalyData ==
    (/\ tool_result.op = "detect_anomalies"
     /\ Cardinality(NumericRows(tool_input.data)) < 5)
    => /\ ~tool_result.raised
       /\ "anomalies_found" \in DOMAIN tool_result.value
       /\ tool_result.value.anomalies_found = FALSE
       /\ "error" \in DOMAIN tool_result.value
       /\ tool_result.fits = <<>>

\* five rows or more, fewer than five of them numbers
C20_Witness ==
    /\ tool_result.op = "detect_anomalies"
    /\ tool_result.fetch = "ok"
    /\ Len(tool_input.data) >= 5
    /\ Cardinality(NumericRows(tool_input.data)) = 4
    /\ tool_result.value.anomalies_found = FALSE
    /\ tool_result.value.error.fmt
         = "Insufficient numeric data for {}. Need at least 5 data points."
    /\ tool_result.value.data_points = 4
    /\ tool_result.fits = <<>>

-----------------------------------------------------------------------------
(* Properties of find_correlations                                         *)

\* the correlations of the result of a call of find_correlations
ReturnedCorrelations ==
    IF tool_result.op = "find_correlations" /\ ~tool_result.raised
    THEN tool_result.value.correlations
    ELSE <<>>

\* C21: every entry of the correlations find_correlations returns has a
\* coefficient that is not NaN and whose absolute value is at least
\* min_correlation, no entry pairs a metric with itself, and no unordered
\* pair of metrics has two entries.
C21_CorrelationsFiltered ==
    LET c == ReturnedCorrelations
        m == tool_input.min_correlation
    IN  /\ \A i \in 1..Len(c) :
             /\ ~c[i].correlation.nan
             /\ c[i].correlation.den > 0
             /\ m > 0 => 10000 * c[i].correlation.num >= m * m * c[i].correlation.den
             /\ c[i].metric1 # c[i].metric2
        /\ \A i, j \in 1..Len(c) :
             i # j => {c[i].metric1, c[i].metric2} # {c[j].metric1, c[j].metric2}

\* a result with an entry, of a negative coefficient too, and without the
\* entry of a pair whose coefficient is a number below the threshold
C21_Witness ==
    LET c == ReturnedCorrelations
        pivot_df == PivotTable(tool_input.data)
    IN  /\ c # <<>>
        /\ \E i \in 1..Len(c) : c[i].correlation.sign < 0
        /\ \E x, y \in DOMAIN pivot_df.cells :
             /\ x # y
             /\ ~Corr(pivot_df.cells[x], pivot_df.cells[y], pivot_df.dates).nan
             /\ \A i \in 1..Len(c) : {c[i].metric1, c[i].metric2} # {x, y}

\* the rows of data without those whose value is a text
WithoutText(data) == SelectSeq(data, LAMBDA r : r.value.kind # "text")

\* the results the tool of the call can give on the rows
ResultsOn(data) ==
    CASE tool_result.op = "find_correlations" ->
           { find_correlations(tool_input.min_correlation, data, "ok").value }
      [] tool_result.op = "run_forecasting" ->
           { o.value : o \in run_forecasting(tool_input.metric_name,
                                             tool_input.forecast_days, data, "ok") }
      [] tool_result.op = "detect_anomalies" ->
           { o.value : o \in detect_anomalies(tool_input.metric_name,
                                              tool_input.contamination, data, "ok") }

\* C22: a sample whose value is a text that is no number is left out of the
\* analysis and makes no tool return an error: a result without an error is
\* one the tool gives on the rows without the text samples, and a result
\* with an error is given only when the rows without them give one too.
C22_TextSampleExcluded ==
    tool_result.op # "none" /\ tool_result.fetch = "ok" /\ ~tool_result.raised
    => IF "error" \in DOMAIN tool_result.value
       THEN \E v \in ResultsOn(WithoutText(tool_input.data)) : "error" \in DOMAIN v
       ELSE tool_result.value \in ResultsOn(WithoutText(tool_input.data))
-----------------------------------------------------------------------------
(* Properties of normalize_metric_name                                     *)

\* C23: normalize_metric_name is idempotent: applied to a name it has
\* returned, for an alias, for a metric type an alias stands for or for any
\* other name, it returns that name again.
C23_NormalizeIdempotent ==
    [][ tool_result.op = "normalize_metric_name"
        /\ tool_result'.op = "normalize_metric_name"
        => tool_result'.value.metric_name = tool_result.value.metric_name ]_vars

\* an alias with a capital letter was mapped to its metric type, and the
\* function was applied to that metric type again
C23_Witness ==
    /\ tool_result.op = "normalize_metric_name"
    /\ tool_input.metric_name = "Heart Rate"
    /\ tool_result.value = [metric_name |-> "heart_rate_resting", applied |-> 2]

-----------------------------------------------------------------------------
(* Properties of the fallback of run_forecasting                           *)

\* the ARIMA fit was attempted and the result is not the ARIMA forecast:
\* the fit or the forecast raised
ArimaRaised ==
    /\ tool_result.op = "run_forecasting"
    /\ tool_result.fits = <<"ARIMA">>
    /\ ~("model_info" \in DOMAIN tool_result.value
         /\ tool_result.value.model_info.type = "ARIMA")

\* C24: when the ARIMA fit or forecast raises, run_forecasting returns the
\* fallback result and no error: every forecast value is the mean of the
\* last 7 daily values, every interval is that mean less and plus 1.96
\* times their standard deviation, a note is present and no error key is.
C24_FallbackInsteadOfError ==
    ArimaRaised
    => LET v == tool_result.value
           recent == LastOf(DailyValues(tool_input.data), 7)
           m == Len(recent)
           S == SumSeq([i \in 1..m |-> recent[i].value])
           Q == SumSeq([i \in 1..m |-> recent[i].value * recent[i].value])
           mean == (10 * S + m) \div (2 * m)
           std == Isqrt((10000 * (m * Q - S * S)) \div (400 * m * (m - 1)))
       IN  /\ ~tool_result.raised
           /\ "error" \notin DOMAIN v
           /\ "note" \in DOMAIN v
           /\ \A i \in 1..Len(v.forecast_values) : v.forecast_values[i] = mean
           /\ \A i \in 1..Len(v.confidence_intervals) :
                 v.confidence_intervals[i]
                    = [low |-> mean - (196 * std) \div 100,
                       high |-> mean + (196 * std) \div 100]

-----------------------------------------------------------------------------
(* generate_insights (agents/gemini_orchestrator.py lines 182-303)         *)
(*                                                                         *)
(* The second run of the loop, with a fixed prompt and no session history. *)
(* Its locals are those of process_query with the same names; it keeps no  *)
(* tool_results.  The result is a list, its timestamp is left out.         *)

\* lines 295-303: except Exception as e, and the list it returns
InsightsRaise(ex) ==
    /\ e' = ex
    /\ IF ex.type \in ExceptionTypes
       THEN /\ pc' = "returned"
            /\ result' = << [type |-> "error",
                             title |-> "Error Generating Insights",
                             description |-> "Unable to generate insights: "
                                             \o ErrorMsg(ex)] >>
       ELSE pc' = "raised" /\ result' = result

\* lines 200-232: the model, the chat, the prompt sent and the locals of
\* the loop
InsightsStart ==
    /\ pc = "insights"
    /\ sends' = sends + 1
    /\ \E out \in SendMessage(NoResponse) :
         IF out.exc # NoExc
         THEN InsightsRaise(out.exc) /\ UNCHANGED response
         ELSE /\ response' = out.response
              /\ pc' = "insights_loop"
              /\ UNCHANGED <<e, result>>
    /\ iteration' = 0
    /\ tools_used' = <<>>
    /\ UNCHANGED <<user_id, session_history, history, tool_results,
                   function_calls_to_execute, function_response_parts,
                   roundDispatches, lastDispatch, dispatched, lastReturn,
                   serviceVars>>

\* lines 234-278: one test of the loop condition and, when it holds, one
\* pass of the body: the function calls of the response are collected, each
\* is executed in turn, and all function responses are sent in one message
InsightsRound ==
    /\ pc = "insights_loop"
    /\ LET calls == FunctionCalls(response.parts)
           n == Len(calls)
           executed(i) == ExecuteFunction(calls[i].name, user_id, calls[i].args)
           leave == /\ pc' = "insights_text"
                    /\ UNCHANGED <<response, tools_used, function_response_parts,
                                   sends, e, result>>
       IN  IF iteration >= max_iterations
           THEN leave /\ UNCHANGED <<iteration, function_calls_to_execute>>
           ELSE IF response.candidates = 0
           THEN /\ InsightsRaise(Exc("IndexError", "list index out of range"))
                /\ UNCHANGED <<iteration, function_calls_to_execute, response,
                               tools_used, function_response_parts, sends>>
           ELSE IF response.parts = <<>>
           THEN leave /\ UNCHANGED <<iteration, function_calls_to_execute>>
           ELSE
             /\ iteration' = iteration + 1
             /\ function_calls_to_execute' = calls
             /\ IF calls = <<>>
                THEN leave
                ELSE \E ds \in [1..n -> UNION { executed(i) : i \in 1..n }] :
                       /\ \A i \in 1..n : ds[i] \in executed(i)
                       /\ IF \E i \in 1..n : ds[i].raised
                          THEN LET k == CHOOSE i \in 1..n :
                                          /\ ds[i].raised
                                          /\ \A j \in 1..(i - 1) : ~ds[j].raised
                               IN  /\ tools_used' =
                                         tools_used \o [i \in 1..k |-> calls[i].name]
                                   /\ function_response_parts' =
                                         [i \in 1..(k - 1) |->
                                            FunctionResponsePart(calls[i].name,
                                                                 ds[i].value)]
                                   /\ InsightsRaise(ds[k].exc)
                                   /\ UNCHANGED <<response, sends>>
                          ELSE /\ tools_used' =
                                     tools_used \o [i \in 1..n |-> calls[i].name]
                               /\ function_response_parts' =
                                     [i \in 1..n |->
                                        FunctionResponsePart(calls[i].name,
                                                             ds[i].value)]
                               /\ sends' = sends + 1
                               /\ \E out \in SendMessage(response) :
                                    IF out.exc # NoExc
                                    THEN InsightsRaise(out.exc) /\ UNCHANGED response
                                    ELSE /\ response' = out.response
                                         /\ pc' = "insights_loop"
                                         /\ UNCHANGED <<e, result>>
    /\ UNCHANGED <<user_id, session_history, history, tool_results,
                   roundDispatches, lastDispatch, dispatched, lastReturn,
                   serviceVars>>

\* lines 280-293: the final text and the list returned
InsightsReturn ==
    /\ pc = "insights_text"
    /\ \E t \in Text(response) :
         IF t.exc # NoExc
         THEN InsightsRaise(t.exc)
         ELSE /\ result' = << [type |-> "summary",
                               title |-> "AI Health Insights",
                               description |->
                                  IF t.text # "" THEN t.text
                                  ELSE "Unable to generate insights at this time.",
                               tools_used |-> tools_used] >>
              /\ pc' = "returned"
              /\ UNCHANGED e
    /\ UNCHANGED <<user_id, session_history, history, response, iteration,
                   tools_used, tool_results, function_calls_to_execute,
                   function_response_parts, sends, roundDispatches,
                   lastDispatch, dispatched, lastReturn, serviceVars>>

\* generate_insights(user_id) called for a user
InsightsInit ==
    /\ pc = "insights"
    /\ user_id \in {"u1", "u2"}
    /\ session_history = <<>>
    /\ history = <<>>
    /\ response = NoResponse
    /\ iteration = 0
    /\ tools_used = <<>>
    /\ tool_results = EmptyDict
    /\ function_calls_to_execute = <<>>
    /\ function_response_parts = <<>>
    /\ sends = 0
    /\ roundDispatches = 0
    /\ lastDispatch = NoDispatch
    /\ dispatched = <<>>
    /\ lastReturn = EmptyDict
    /\ e = NoExc
    /\ result = EmptyDict
    /\ runs = <<>>
    /\ JournalInit /\ HealthInit /\ ToolIdle

InsightsSpec ==
    InsightsInit /\ [][InsightsStart \/ InsightsRound \/ InsightsReturn]_vars

-----------------------------------------------------------------------------
(* Properties of generate_insights                                         *)

\* what the claim says of a run: it never raises, what it returns is a list
\* of one element, of type "error" when an exception occurred, and of type
\* "summary" when the loop was left without one, after at most 10 rounds
C25_StepOk ==
    /\ pc' # "raised"
    /\ iteration' <= 10
    /\ pc' = "returned" => /\ Len(result') = 1
                           /\ result'[1].type \in {"summary", "error"}
                           /\ e' # NoExc => result'[1].type = "error"
    /\ pc = "insights_text" /\ pc' = "returned" => result'[1].type = "summary"

\* C25: generate_insights never raises and returns a list of exactly one
\* element: of type "summary" when the loop completes, after at most 10 tool
\* rounds, and of type "error" when any exception occurs.
C25_OneInsight == [][C25_StepOk]_vars

-----------------------------------------------------------------------------
(* Properties of the metric name the tools report                          *)

\* C26: for every metric name m, a successful result of detect_anomalies
\* and of run_forecasting, on the ARIMA path and on the fallback path,
\* reports as metric_name the normalized name of m, the one both tools
\* query the store with.
C26_SameNormalizedName ==
    (/\ tool_result.op \in {"run_forecasting", "detect_anomalies"}
     /\ ~tool_result.raised
     /\ "error" \notin DOMAIN tool_result.value
     /\ "metric_name" \in DOMAIN tool_result.value)
    => tool_result.value.metric_name = normalize_metric_name(tool_input.metric_name)

-----------------------------------------------------------------------------
(* Two concurrent process_query runs (index.py lines 949-1004)             *)
(*                                                                         *)
(* Each request calls process_query with the user of its token; the two    *)
(* runs are in separate execution contexts and their steps interleave in   *)
(* any order.  runs[r] holds the locals of run r, under the names of the   *)
(* code, and what was requested of and given to _execute_function in it.   *)

\* the rounds in which the model asks a concurrent run for tools
MaxToolRounds == 1

LocalsShared(r, locals) ==
    [q \in DOMAIN runs |->
        IF q = r THEN locals
        ELSE [runs[q] EXCEPT !.tools_used = locals.tools_used,
                             !.tool_results = locals.tool_results]]

\* gemini_orchestrator.py lines 377-391: tools_used, tool_results, chat,
\* response and iteration are locals of the call; a step of run r assigns
\* its own
Locals(r, locals) == [runs EXCEPT ![r] = locals]

\* lines 463-472: the handler of run r
RunRaise(r, ex) ==
    runs' = Locals(r, [runs[r] EXCEPT !.pc = IF QueryExcept(ex) THEN "returned"
                                             ELSE "raised",
                                      !.result = IF QueryExcept(ex)
                                                 THEN ErrorResponse(ex)
                                                 ELSE @])

\* lines 385 and 433-437, with 392-410: run r sends the query or the batch
\* of function responses, and with the response tests the loop condition
\* and collects the function calls.  The model asks for detect_anomalies
\* and for find_correlations with a user_id of its choosing, for each at
\* most once in a response.
RunSendMessage(r) ==
    /\ runs # <<>>
    /\ runs[r].pc \in {"send_query", "send_batch"}
    /\ \E out \in SendMessage(runs[r].response) :
         LET calls == FunctionCalls(out.response.parts)
             sent == [runs[r] EXCEPT !.response = out.response]
         IN  /\ \A i \in 1..Len(calls) :
                   calls[i].name \in {"detect_anomalies", "find_correlations"}
             /\ calls # <<>> => runs[r].iteration < MaxToolRounds
             /\ \A i, j \in 1..Len(calls) : calls[i].name = calls[j].name => i = j
             /\ IF out.exc # NoExc THEN RunRaise(r, out.exc)
                ELSE IF runs[r].iteration >= max_iterations
                THEN runs' = Locals(r, [sent EXCEPT !.pc = "extract"])
                ELSE IF out.response.candidates = 0
                THEN RunRaise(r, Exc("IndexError", "list index out of range"))
                ELSE IF out.response.parts = <<>>
                THEN runs' = Locals(r, [sent EXCEPT !.pc = "extract"])
                ELSE runs' = Locals(r,
                       [sent EXCEPT
                          !.iteration = @ + 1,
                          !.function_calls_to_execute = calls,
                          !.function_response_parts =
                              IF calls = <<>> THEN @ ELSE <<>>,
                          !.requested = @ \o [i \in 1..Len(calls) |-> calls[i].name],
                          !.pc = IF calls = <<>> THEN "extract" ELSE "exec"])
    /\ UNCHANGED <<pc, user_id, session_history, history, response, iteration,
                   tools_used, tool_results, function_calls_to_execute,
                   function_response_parts, sends, roundDispatches,
                   lastDispatch, dispatched, lastReturn, e, result,
                   journalVars, healthVars, toolVars>>

\* lines 412-431: one pass of the for loop of run r
RunExecTool(r) ==
    /\ runs # <<>>
    /\ runs[r].pc = "exec"
    /\ LET done == Len(runs[r].function_response_parts)
           function_call == runs[r].function_calls_to_execute[done + 1]
           function_name == function_call.name
       IN  \E d \in ExecuteFunction(function_name, runs[r].user_id,
                                    function_call.args) :
              IF d.raised
              THEN RunRaise(r, d.exc)
              ELSE runs' = Locals(r,
                     [runs[r] EXCEPT
                        !.tools_used = Append(@, function_name),
                        !.tool_results = DictSet(@, function_name, d.value),
                        !.function_response_parts =
                            Append(@, FunctionResponsePart(function_name, d.value)),
                        !.dispatched = Append(@, [name |-> d.name,
                                                   user_id |-> d.tool_user_id]),
                        !.pc = IF done + 1 = Len(runs[r].function_calls_to_execute)
                               THEN "send_batch" ELSE "exec"])
    /\ UNCHANGED <<pc, user_id, session_history, history, response, iteration,
                   tools_used, tool_results, function_calls_to_execute,
                   function_response_parts, sends, roundDispatches,
                   lastDispatch, dispatched, lastReturn, e, result,
                   journalVars, healthVars, toolVars>>

\* lines 439-461: the final answer and the result of run r
RunReturn(r) ==
    /\ runs # <<>>
    /\ runs[r].pc = "extract"
    /\ \E t \in Text(runs[r].response) :
         IF t.exc # NoExc
         THEN RunRaise(r, t.exc)
         ELSE runs' = Locals(r,
                [runs[r] EXCEPT
                   !.pc = "returned",
                   !.result = [answer |-> t.text,
                               tools_used |-> runs[r].tools_used,
                               tool_results |-> runs[r].tool_results,
                               sources |-> Sources(runs[r].tools_used,
                                                   runs[r].tool_results)]])
    /\ UNCHANGED <<pc, user_id, session_history, history, response, iteration,
                   tools_used, tool_results, function_calls_to_execute,
                   function_response_parts, sends, roundDispatches,
                   lastDispatch, dispatched, lastReturn, e, result,
                   journalVars, healthVars, toolVars>>

\* two requests, of the same user or of two users, each at the call of
\* process_query without session history
ConcurrentInit ==
    /\ pc = "idle"
    /\ user_id = ""
    /\ session_history = <<>>
    /\ history = <<>>
    /\ response = NoResponse
    /\ iteration = 0
    /\ tools_used = <<>>
    /\ tool_results = EmptyDict
    /\ function_calls_to_execute = <<>>
    /\ function_response_parts = <<>>
    /\ sends = 0
    /\ roundDispatches = 0
    /\ lastDispatch = NoDispatch
    /\ dispatched = <<>>
    /\ lastReturn = EmptyDict
    /\ e = NoExc
    /\ result = EmptyDict
    /\ JournalInit /\ HealthInit /\ ToolIdle
    /\ \E u \in {"u1", "u2"} :
         runs = [r \in 1..2 |->
                   [pc |-> "send_query",
                    user_id |-> IF r = 1 THEN "u1" ELSE u,
                    response |-> NoResponse, iteration |-> 0,
                    tools_used |-> <<>>, tool_results |-> EmptyDict,
                    function_calls_to_execute |-> <<>>,
                    function_response_parts |-> <<>>,
                    requested |-> <<>>, dispatched |-> <<>>,
                    result |-> EmptyDict]]

ConcurrentSpec ==
    ConcurrentInit
    /\ [][\E r \in 1..2 : RunSendMessage(r) \/ RunExecTool(r) \/ RunReturn(r)]_vars

-----------------------------------------------------------------------------
(* Properties of concurrent runs                                           *)

\* the names of a sequence of calls
Names(calls) == [i \in 1..Len(calls) |-> calls[i].name]

\* the tools_used and tool_results of run r are of the calls requested in
\* its own conversation and executed by it, each with the user_id of r
OwnCalls(r) ==
    LET run == runs[r]
        n == Len(run.tools_used)
    IN  /\ run.tools_used = Names(run.dispatched)
        /\ n <= Len(run.requested)
        /\ run.tools_used = SubSeq(run.requested, 1, n)
        /\ run.pc \in {"send_batch", "extract"} => n = Len(run.requested)
        /\ DOMAIN run.tool_results = { run.tools_used[i] : i \in 1..n }
        /\ \A i \in 1..n : run.dispatched[i].user_id \in {run.user_id, "none"}

\* C27: when two process_query runs execute concurrently, for the same or
\* for different users and under any interleaving of their steps, the
\* tools_used and tool_results of each run contain exactly the calls
\* requested in its own conversation, every tool it executes receives its
\* own user_id, and no step of a run changes the loop state of the other.
C27_RunsIsolated ==
    [][ \A r \in DOMAIN runs' :
           /\ OwnCalls(r)'
           /\ runs'[r] # runs[r] => \A q \in DOMAIN runs \ {r} : runs'[q] = runs[q] ]_vars

\* both runs, of different users, are inside a batch after steps that
\* interleaved, each having executed a different tool
C27_Witness ==
    /\ runs # <<>>
    /\ runs[1].user_id # runs[2].user_id
    /\ runs[1].pc = "exec" /\ runs[2].pc = "exec"
    /\ runs[1].tools_used = <<"detect_anomalies">>
    /\ runs[2].tools_used = <<"find_correlations">>
    /\ runs[1].dispatched = << [name |-> "detect_anomalies", user_id |-> "u1"] >>

-----------------------------------------------------------------------------
(* Properties of error results in the loop of process_query                *)

\* a pass of the for loop over a call d that went wrong (an unregistered
\* name, an exception inside the tool call, an error the tool returned)
\* appends the name to tools_used, stores the error result in tool_results,
\* adds it to the function responses of the round and goes on with the next
\* call or with the send; the send carries a response for every call of the
\* batch and, unless it raises itself, leads back to the loop condition
C28_StepOk ==
    /\ pc = "exec" /\ dispatched' # dispatched
       => LET d == lastDispatch'
          IN  (d.exc # NoExc \/ d.name \notin Registered \/ "error" \in DOMAIN d.value)
              => /\ ~d.raised
                 /\ "error" \in DOMAIN d.value
                 /\ tools_used' = Append(tools_used, d.name)
                 /\ d.name \in DOMAIN tool_results'
                 /\ tool_results'[d.name] = d.value
                 /\ function_response_parts' =
                       Append(function_response_parts,
                              [name |-> d.name, response |-> [result |-> d.value]])
                 /\ pc' = IF Len(function_response_parts') < Len(function_calls_to_execute)
                          THEN "exec" ELSE "send_batch"
    /\ pc = "send_batch" /\ sends' # sends
       => /\ Len(function_response_parts) = Len(function_calls_to_execute)
          /\ \A i \in 1..Len(function_calls_to_execute) :
                function_response_parts[i].name = function_calls_to_execute[i].name
          /\ e' = NoExc => pc' = "loop_test"

\* C28: in process_query a tool call that yields an error result (an
\* unregistered tool name, a tool exception or an in-band insufficient-data
\* error) does not abort the loop: its name is appended to tools_used, the
\* error result is stored in tool_results and sent back in the batch of the
\* round, the remaining calls of the batch are executed and the loop goes on.
C28_ErrorResultContinues == [][C28_StepOk]_vars

\* the first call of a batch asked for an unregistered tool, the second call
\* was executed after it, and the batch with both results was sent
C28_Witness ==
    /\ pc = "loop_test"
    /\ sends = 2
    /\ tools_used = <<"lookup_weather", "detect_anomalies">>
    /\ "error" \in DOMAIN tool_results["lookup_weather"]
    /\ Len(function_response_parts) = 2
    /\ "error" \in DOMAIN function_response_parts[1].response.result

-----------------------------------------------------------------------------
(* Properties of entries without a vector                                  *)

\* the entries that exist in the relational store only
RelationalOnly ==
    { r \in journal_entries :
        \A v \in index : v.id # VectorId(r.user_id, r.id) }

\* C29: when create_journal_entry stores the relational row and the vector
\* upsert fails, the request still reports success and the entry exists in
\* the relational store only; and a later search_private_journal of the
\* same user whose query is a substring of the content of such an entry
\* returns the entry through the keyword fallback whenever the semantic
\* search gives no match.
C29_RelationalOnlyEntryFound ==
    /\ (/\ journal_call.op = "create"
        /\ journal_call.rel = "ok"
        /\ journal_call.vec = "upsert_failed")
       => /\ journal_result.success
          /\ \E r \in RelationalOnly : r.id = journal_call.entry_id
    /\ journal_call.op = "search" /\ journal_call.semantic = 0
       => \A r \in RelationalOnly :
             (r.user_id = journal_call.user_id
              /\ Contains(r.content, journal_call.query))
             => /\ "search_method" \in DOMAIN journal_result
                /\ journal_result.search_method = "keyword_fallback"
                /\ \E i \in 1..Len(journal_result.results) :
                      journal_result.results[i].entry_id = r.id

-----------------------------------------------------------------------------
(* Properties of a search whose entry check raised                         *)

\* the user of the latest search has an entry that contains the query
UserHasMatchingEntry ==
    \E r \in journal_entries :
        /\ r.user_id = journal_call.user_id
        /\ Contains(r.content, journal_call.query)

====
